---- MODULE Spec2Model ----
(***************************************************************************)
(* Model of the thingsdiary TypeScript client: its cryptographic           *)
(* primitives (AES-256-GCM envelope, NaCl sealed box, Ed25519 signatures), *)
(* the key lookup (KeysAPI), the resource APIs (diaries, topics, entries,  *)
(* templates), the HTTP transport, and the server the client talks to.     *)
(*                                                                         *)
(* Cryptography is modelled symbolically.  A byte string is a tagged       *)
(* tuple; a ciphertext is the term of its key, nonce and plaintext, and    *)
(* opens only with that key and nonce.  randomBytes never returns the      *)
(* same value twice (each draw is identified by its serial number): a      *)
(* collision of two 96- or 256-bit random values is outside the model.     *)
(***************************************************************************)
EXTENDS Integers, Sequences, FiniteSets, TLC

VARIABLES
    rtype,       \* the resource API this session exercises: topics, entries or templates
    ops,         \* per call slot: the operation in progress or last completed
    nops,        \* number of operations called so far
    rng,         \* number of randomBytes / generateKeyPair draws made so far
    encLog,      \* every encryptWithSymmetricKey call of the session, in order
    keyFetches,  \* per diary: number of GET /diaries/{id}/keys requests sent
    keyNeeds,    \* per diary: number of operations called that need its key
    srvDiaries,  \* server: the diaries, by id
    srvRecs,     \* server: the topics / entries / templates, by <<diary id, id>>
    srvSeq,      \* server: number of keys it has issued or been given
    lab          \* the inputs and outputs of the primitive under test

vars == <<rtype, ops, nops, rng, encLog, keyFetches, keyNeeds,
          srvDiaries, srvRecs, srvSeq, lab>>

-----------------------------------------------------------------------------
(* Bounds and input domains *)

MaxOps == 4          \* operations called in one behaviour
MaxDiaries == 1      \* diaries created in one behaviour
MaxKeys == 2         \* keys the server holds per diary

DiaryIdOf == <<"d1", "d2", "d3">>
DiaryIds == {DiaryIdOf[i] : i \in 1..MaxDiaries}
RecIds == {"r1", "r2"}
Texts == {<<"str", "a">>, <<"str", "b">>}
Slots == {1, 2}       \* calls that can be in flight at a time
Sequential == {1}     \* the caller that awaits each call before the next
Resources == {"topics", "entries", "templates"}

-----------------------------------------------------------------------------
(* Strings, JSON values and byte strings *)

Undefined == <<"undefined">>
Str(s) == <<"str", s>>
Bool(b) == <<"bool", b>>
Obj(pairs) == <<"obj", pairs>>

\* randomBytes(n) of @noble/ciphers: the r-th draw of the client's generator.
randomBytes(r, n) == <<"rand", "client", r, n>>

\* new TextEncoder().encode(s) and new TextDecoder().decode(b)
TextEncode(s) == <<"utf8", s>>
TextDecode(b) == IF b[1] = "utf8" THEN b[2] ELSE <<"garbled", b>>

\* bytesToBase64: a string; Array.from(bytes): an array of numbers
bytesToBase64(bytes) == <<"b64", bytes>>
ArrayFrom(bytes) == <<"arr", bytes>>

\* base64ToBytes: Buffer.from(x, "base64") decodes a base64 string; given an
\* array of numbers, Buffer.from ignores the encoding and copies the numbers.
base64ToBytes(x) ==
    IF x[1] \in {"b64", "arr"} THEN x[2] ELSE <<"garbled", x>>

\* obj.name: the value of the member, undefined when there is none
Get(obj, name) ==
    LET ps == obj[2]
        hit == {i \in 1..Len(ps) : ps[i][1] = name}
    IN  IF obj[1] = "obj" /\ hit # {}
        THEN ps[CHOOSE i \in hit : \A j \in hit : i <= j][2]
        ELSE Undefined

\* JSON.stringify: members whose value is undefined are left out, the others
\* keep their insertion order; nested objects likewise.
RECURSIVE Strip(_)
Strip(v) ==
    IF v[1] = "obj"
    THEN LET ps == v[2]
             kept == SelectSeq(ps, LAMBDA p : p[2] # Undefined)
         IN  Obj([i \in 1..Len(kept) |-> <<kept[i][1], Strip(kept[i][2])>>])
    ELSE v

JSONstringify(v) == <<"json", Strip(v)>>
JSONparse(text) == IF text[1] = "json" THEN text[2] ELSE <<"garbled", text>>

-----------------------------------------------------------------------------
(* Results of calls that may throw.  The errors bear the names of the
   specification's taxonomy: "DecryptionError" is the Error gcm.decrypt
   throws, "NoActiveKeyError" the Error("No active encryption key found"),
   "InvalidSealedBoxError" and "DecryptionFailedError" the two Errors of
   decryptWithPrivateKey. *)

Ok(v) == [ok |-> TRUE, value |-> v, err |-> "none", status |-> 0]
Err(e) == [ok |-> FALSE, value |-> Undefined, err |-> e, status |-> 0]
ApiError(statusCode) ==
    [ok |-> FALSE, value |-> Undefined, err |-> "ApiError", status |-> statusCode]

\* try { r } catch { throw new Error(e) }
Rethrow(r, e) == IF r.ok THEN r ELSE Err(e)

\* Faulty variant of Collect: a failure is skipped and the rest is returned
CollectGood(out) ==
    LET good == SelectSeq(out, LAMBDA r : r.ok)
    IN  Ok([i \in 1..Len(good) |-> good[i].value])

\* the results of a loop over a list: the first exception, else all the values
Collect(out) ==
    LET bad == {i \in 1..Len(out) : ~out[i].ok}
    IN  IF bad # {}
        THEN out[CHOOSE i \in bad : \A j \in bad : i <= j]
        ELSE Ok([i \in 1..Len(out) |-> out[i].value])

-----------------------------------------------------------------------------
(* Symmetric AEAD: AES-256-GCM *)

\* gcm(key, nonce).encrypt(data): ciphertext with the 16-byte tag appended
gcmEncrypt(key, nonce, data) == <<"gcm", key, nonce, data>>

\* Faulty variant of gcmDecrypt: the tag is not verified
gcmDecryptUnverified(key, nonce, ciphertext) ==
    IF ciphertext[1] = "gcm" THEN Ok(ciphertext[4]) ELSE Err("DecryptionError")

\* gcm(key, nonce).decrypt(ciphertext): throws unless the tag verifies
gcmDecrypt(key, nonce, ciphertext) ==
    IF ciphertext[1] = "gcm" /\ ciphertext[2] = key /\ ciphertext[3] = nonce
    THEN Ok(ciphertext[4])
    ELSE Err("DecryptionError")

\* Faulty variant of generateSymmetricKey: the same key at every call
generateFixedKey(r) == randomBytes(0, 32)

generateSymmetricKey(r) == randomBytes(r, 32)

\* Faulty variant of encryptWithSymmetricKey: the same nonce at every call
encryptWithFixedNonce(data, key, r) ==
    [nonce |-> randomBytes(0, 12),
     ciphertext |-> gcmEncrypt(key, randomBytes(0, 12), data)]

\* encryptWithSymmetricKey(data, key), its nonce being draw r
encryptWithSymmetricKey(data, key, r) ==
    LET nonce == randomBytes(r, 12)
        ciphertext == gcmEncrypt(key, nonce, data)
    IN  [nonce |-> nonce, ciphertext |-> ciphertext]

\* Faulty variant of decryptWithSymmetricKey: key and nonce change places
decryptWithKeyAsNonce(nonce, ciphertext, key) ==
    gcmDecrypt(nonce, key, ciphertext)

decryptWithSymmetricKey(nonce, ciphertext, key) ==
    gcmDecrypt(key, nonce, ciphertext)

-----------------------------------------------------------------------------
(* Sealed box: X25519 + XSalsa20-Poly1305 *)

x25519PublicKey(secretKey) == <<"xpub", secretKey>>

\* generateKeyPair() of @stablelib/nacl, its secret key being draw r
generateKeyPair(r) ==
    [secretKey |-> randomBytes(r, 32),
     publicKey |-> x25519PublicKey(randomBytes(r, 32))]

\* the X25519 shared secret of a public key and a secret key
SharedKey(publicKey, secretKey) ==
    IF publicKey[1] = "xpub"
    THEN <<"dh", {publicKey[2], secretKey}>>
    ELSE <<"dh", {publicKey, secretKey}>>

\* sha512(ephemeral_pk || recipient_pk).slice(0, 24)
SealNonce(ephemeralPublicKey, publicKey) ==
    <<"sha512-24", ephemeralPublicKey, publicKey>>

box(theirPublicKey, mySecretKey, nonce, data) ==
    <<"box", SharedKey(theirPublicKey, mySecretKey), nonce, data>>

\* Faulty variant of openBox: the authenticator is not verified
openBoxUnverified(theirPublicKey, mySecretKey, nonce, ciphertext) ==
    IF ciphertext[1] = "box" THEN Ok(ciphertext[4]) ELSE Err("null")

\* openBox: the data, or null when the authenticator does not verify
openBox(theirPublicKey, mySecretKey, nonce, ciphertext) ==
    IF /\ ciphertext[1] = "box"
       /\ ciphertext[2] = SharedKey(theirPublicKey, mySecretKey)
       /\ ciphertext[3] = nonce
    THEN Ok(ciphertext[4])
    ELSE Err("null")

RECURSIVE ByteLen(_)
ByteLen(b) ==
    CASE b[1] = "rand" -> b[4]
      [] b[1] = "raw" -> b[2]
      [] b[1] = "utf8" -> Len(b[2][2])
      [] b[1] = "xpub" -> 32
      [] b[1] = "edpub" -> 32
      [] b[1] = "pbkdf2" -> 32
      [] b[1] = "sig" -> 64
      [] b[1] = "gcm" -> ByteLen(b[4]) + 16
      [] b[1] = "box" -> ByteLen(b[4]) + 16
      [] b[1] = "sealed" -> 32 + ByteLen(b[3])

\* Faulty variant of SealWith: the box is made for the ephemeral public key
SealForEphemeral(data, publicKey, ephemeralKeyPair) ==
    LET nonce == SealNonce(ephemeralKeyPair.publicKey, publicKey)
        encrypted == box(ephemeralKeyPair.publicKey, ephemeralKeyPair.secretKey,
                         nonce, data)
    IN  <<"sealed", ephemeralKeyPair.publicKey, encrypted>>

\* encryptWithPublicKey(data, publicKey), the ephemeral key pair being draw r:
\* ephemeral public key (32 bytes) followed by the box
SealWith(data, publicKey, ephemeralKeyPair) ==
    LET nonce == SealNonce(ephemeralKeyPair.publicKey, publicKey)
        encrypted == box(publicKey, ephemeralKeyPair.secretKey, nonce, data)
    IN  <<"sealed", ephemeralKeyPair.publicKey, encrypted>>

\* Faulty variant of encryptWithPublicKey: one ephemeral key pair for all calls
encryptWithFixedEphemeral(data, publicKey, r) ==
    SealWith(data, publicKey, generateKeyPair(0))

encryptWithPublicKey(data, publicKey, r) ==
    SealWith(data, publicKey, generateKeyPair(r))

\* encrypted.slice(0, 32) and encrypted.slice(32)
SliceHead(encrypted) ==
    IF encrypted[1] = "sealed" THEN encrypted[2] ELSE <<"slice-head", encrypted>>
SliceTail(encrypted) ==
    IF encrypted[1] = "sealed" THEN encrypted[3] ELSE <<"slice-tail", encrypted>>

\* Faulty variant of decryptWithPrivateKey: the length is not looked at
decryptWithoutLengthCheck(encrypted, privateKey, publicKey) ==
    Rethrow(openBox(SliceHead(encrypted), privateKey,
                    SealNonce(SliceHead(encrypted), publicKey),
                    SliceTail(encrypted)),
            "DecryptionFailedError")

decryptWithPrivateKey(encrypted, privateKey, publicKey) ==
    IF ByteLen(encrypted) < 32
    THEN Err("InvalidSealedBoxError")
    ELSE Rethrow(openBox(SliceHead(encrypted), privateKey,
                         SealNonce(SliceHead(encrypted), publicKey),
                         SliceTail(encrypted)),
                 "DecryptionFailedError")

-----------------------------------------------------------------------------
(* Signatures and credentials *)

ed25519PublicKey(seed) == <<"edpub", seed>>

\* Faulty variant of signBytes: the message does not enter the signature
signKeyOnly(data, privateKey) == <<"sig", privateKey, TextEncode(Str(""))>>

signBytes(data, privateKey) == <<"sig", privateKey, data>>

\* Faulty variant of verifySignature: the message is not compared
verifyKeyOnly(data, signature, publicKey) ==
    /\ signature[1] = "sig"
    /\ ed25519PublicKey(signature[2]) = publicKey

verifySignature(data, signature, publicKey) ==
    /\ signature[1] = "sig"
    /\ ed25519PublicKey(signature[2]) = publicKey
    /\ signature[3] = data

\* Faulty variant of deriveCredentials: the seed phrase is not hashed in
deriveFixedCredentials(seedPhrase) ==
    [encryptionPublicKey |-> x25519PublicKey(<<"pbkdf2", "">>),
     encryptionPrivateKey |-> <<"pbkdf2", "">>,
     signingPublicKey |-> ed25519PublicKey(<<"pbkdf2", "">>),
     signingPrivateKey |-> <<"pbkdf2", "">>]

deriveCredentials(seedPhrase) ==
    LET seed == <<"pbkdf2", seedPhrase>>
    IN  [encryptionPublicKey |-> x25519PublicKey(seed),
         encryptionPrivateKey |-> seed,
         signingPublicKey |-> ed25519PublicKey(seed),
         signingPrivateKey |-> seed]

\* the credentials the Client of this session was built with
credentials == deriveCredentials("alpha")

-----------------------------------------------------------------------------
(* HTTP transport *)

authToken == Str("token")
USER_AGENT == Str("thingsdiary-client")

\* Faulty variant of NoHeaders: a signature goes with every request
SignedHeaders ==
    [XSignature |-> bytesToBase64(signBytes(TextEncode(Str("")),
                                            credentials.signingPrivateKey))]

NoHeaders == [XSignature |-> Undefined]

\* HttpClient.headers(extra)
Headers(token, extra) ==
    [ContentType |-> Str("application/json"),
     UserAgent |-> USER_AGENT,
     Authorization |-> IF token # Undefined THEN <<"bearer", token>> ELSE Undefined,
     XSignature |-> extra.XSignature]

\* Faulty variant of HttpRequest: the body is serialized in another way than
\* the caller serialized it, members without a value being written out
HttpRequestReencoded(token, path, method, optBody, extra) ==
    [method |-> method,
     path |-> path,
     headers |-> Headers(token, extra),
     body |-> IF optBody # Undefined THEN <<"json", optBody>> ELSE Undefined]

\* HttpClient.request up to fetch: what goes onto the wire.  The body is the
\* JSON text of options.body, which fetch transmits as its UTF-8 bytes.
HttpRequest(token, path, method, optBody, extra) ==
    [method |-> method,
     path |-> path,
     headers |-> Headers(token, extra),
     body |-> IF optBody # Undefined THEN JSONstringify(optBody) ELSE Undefined]

-----------------------------------------------------------------------------
(* The server.  It is not part of the repository: it stores what it is
   sent and answers with what it stored, byte fields as base64 strings.  It
   serves every route with or without the "v1" prefix, checks the signature
   of a write against the account's signing public key, and answers 404 for
   a diary or record it does not hold. *)

KeyIdOf == <<"k1", "k2", "k3", "k4", "k5", "k6">>

\* a diary key issued on the server's side, sealed for the account
ServerKey(n) == <<"rand", "server", n, 32>>
ServerSealed(n) ==
    SealWith(ServerKey(n), credentials.encryptionPublicKey,
             [secretKey |-> <<"rand", "server-eph", n, 32>>,
              publicKey |-> x25519PublicKey(<<"rand", "server-eph", n, 32>>)])

StripV1(path) == IF Len(path) > 0 /\ path[1] = "v1" THEN Tail(path) ELSE path

\* the query of TopicsAPI.delete, the last part of the URL when there is one
DeleteQuery(deleteEntries) ==
    IF deleteEntries THEN <<"?delete_entries=true">> ELSE <<>>

StripQuery(path) ==
    IF Len(path) > 0 /\ path[Len(path)] = "?delete_entries=true"
    THEN SubSeq(path, 1, Len(path) - 1)
    ELSE path

Live(D, d) == d \in DOMAIN D /\ ~D[d].deleted
LiveRec(R, d, id) == <<d, id>> \in DOMAIN R /\ ~R[<<d, id>>].deleted

Envelope(e) ==
    [nonce |-> bytesToBase64(e.nonce), data |-> bytesToBase64(e.data)]

ApiDiaryOf(D, d) ==
    [id |-> d,
     version |-> D[d].version,
     encryption |->
        [diary_key_id |-> D[d].encryption.diary_key_id,
         encrypted_key_nonce |-> bytesToBase64(D[d].encryption.nonce),
         encrypted_key_data |-> bytesToBase64(D[d].encryption.data)],
     written |-> D[d].written,
     encryption_keys |->
        [i \in 1..Len(D[d].keys) |->
            [id |-> D[d].keys[i].id, value |-> bytesToBase64(D[d].keys[i].value)]],
     details |-> Envelope(D[d].details)]

ApiRecOf(R, d, id) ==
    [id |-> id,
     diary_id |-> d,
     version |-> R[<<d, id>>].version,
     encryption |->
        [diary_key_id |-> R[<<d, id>>].encryption.diary_key_id,
         encrypted_key_nonce |-> bytesToBase64(R[<<d, id>>].encryption.nonce),
         encrypted_key_data |-> bytesToBase64(R[<<d, id>>].encryption.data)],
     details |-> Envelope(R[<<d, id>>].details),
     preview |-> Envelope(R[<<d, id>>].preview),
     written |-> R[<<d, id>>].written]

ApiKeysOf(D, d) ==
    [i \in 1..Len(D[d].keys) |->
        [id |-> D[d].keys[i].id,
         value |-> bytesToBase64(D[d].keys[i].value),
         status |-> D[d].keys[i].status]]

\* the bytes of a byte field of a request body
WireBytes(v) == IF v[1] \in {"b64", "arr"} THEN v[2] ELSE <<"garbled", v>>

WireEnvelope(o) ==
    IF o = Undefined
    THEN [nonce |-> Undefined, data |-> Undefined]
    ELSE [nonce |-> WireBytes(Get(o, "nonce")), data |-> WireBytes(Get(o, "data"))]

WireEncryption(o) ==
    [diary_key_id |-> Get(o, "diary_key_id"),
     nonce |-> WireBytes(Get(o, "encrypted_key_nonce")),
     data |-> WireBytes(Get(o, "encrypted_key_data"))]

Signed(req) ==
    /\ req.headers.XSignature # Undefined
    /\ req.body # Undefined
    /\ verifySignature(TextEncode(req.body),
                       base64ToBytes(req.headers.XSignature),
                       credentials.signingPublicKey)

Reply(resp, D, R, seq) == [resp |-> resp, D |-> D, R |-> R, seq |-> seq]

\* Put f[x] = v, extending the domain of f when x is new
Put(f, x, v) == [y \in DOMAIN f \cup {x} |-> IF y = x THEN v ELSE f[y]]

\* what the server does with one request: the response, and its new state.
\* `ghost` is the plaintext the caller wrote and the key it wrapped with, kept
\* beside the stored ciphertext (and carried in the member `written` of the
\* responses, which the client never reads) for the statement of properties.
Serve(req, D, R, seq, ghost) ==
    LET path == StripQuery(StripV1(req.path))
        body == IF req.body = Undefined THEN Undefined ELSE JSONparse(req.body)
        d == IF Len(path) >= 2 THEN path[2] ELSE ""
        id == IF Len(path) >= 4 THEN path[4] ELSE ""
    IN
    CASE path = <<"diaries">> /\ req.method = "POST" ->
            IF ~Signed(req) THEN Reply(ApiError(401), D, R, seq)
            ELSE LET new == DiaryIdOf[Cardinality(DOMAIN D) + 1]
                     kid == KeyIdOf[seq + 1]
                     enc == WireEncryption(Get(body, "encryption"))
                     D2 == Put(D, new,
                            [version |-> <<"num", 1>>,
                             encryption |-> [enc EXCEPT !.diary_key_id = Str(kid)],
                             details |-> WireEnvelope(Get(body, "details")),
                             keys |-> <<[id |-> kid,
                                         value |-> WireBytes(Get(body, "encrypted_diary_key")),
                                         status |-> "active"]>>,
                             deleted |-> FALSE,
                             written |-> ghost])
                 IN  Reply(Ok([diary |-> ApiDiaryOf(D2, new)]), D2, R, seq + 1)
      [] path = <<"diaries">> /\ req.method = "GET" ->
            LET live == {x \in DOMAIN D : ~D[x].deleted}
                order == [i \in 1..Cardinality(DOMAIN D) |-> DiaryIdOf[i]]
                shown == SelectSeq(order, LAMBDA x : x \in live)
            IN  Reply(Ok([diaries |-> [i \in 1..Len(shown) |-> ApiDiaryOf(D, shown[i])]]),
                      D, R, seq)
      [] Len(path) = 2 /\ path[1] = "diaries" ->
            IF ~Live(D, d) THEN Reply(ApiError(404), D, R, seq)
            ELSE CASE req.method = "GET" ->
                        Reply(Ok([diary |-> ApiDiaryOf(D, d)]), D, R, seq)
                   [] req.method = "DELETE" ->
                        Reply(Ok(Undefined), [D EXCEPT ![d].deleted = TRUE], R, seq)
                   [] req.method = "PUT" ->
                        IF ~Signed(req) THEN Reply(ApiError(401), D, R, seq)
                        ELSE LET D2 == [D EXCEPT
                                        ![d].version = Get(body, "version"),
                                        ![d].encryption = WireEncryption(Get(body, "encryption")),
                                        ![d].details = WireEnvelope(Get(body, "details")),
                                        ![d].written = ghost]
                             IN  Reply(Ok([diary |-> ApiDiaryOf(D2, d)]), D2, R, seq)
                   [] OTHER -> Reply(ApiError(405), D, R, seq)
      [] Len(path) = 3 /\ path[1] = "diaries" /\ path[3] = "keys" /\ req.method = "GET" ->
            IF ~Live(D, d) THEN Reply(ApiError(404), D, R, seq)
            ELSE Reply(Ok([keys |-> ApiKeysOf(D, d)]), D, R, seq)
      [] Len(path) = 3 /\ path[1] = "diaries" /\ path[3] \in Resources /\ req.method = "GET" ->
            IF ~Live(D, d) THEN Reply(ApiError(404), D, R, seq)
            ELSE LET order == <<"r1", "r2", "r3">>
                     shown == SelectSeq(order, LAMBDA x : LiveRec(R, d, x))
                 IN  Reply(Ok([items |-> [i \in 1..Len(shown) |-> ApiRecOf(R, d, shown[i])]]),
                           D, R, seq)
      [] Len(path) = 4 /\ path[1] = "diaries" /\ path[3] \in Resources ->
            IF ~Live(D, d) THEN Reply(ApiError(404), D, R, seq)
            ELSE CASE req.method = "PUT" ->
                        IF ~Signed(req) THEN Reply(ApiError(401), D, R, seq)
                        ELSE LET R2 == Put(R, <<d, id>>,
                                        [version |-> Get(body, "version"),
                                         encryption |-> WireEncryption(Get(body, "encryption")),
                                         details |-> WireEnvelope(Get(body, "details")),
                                         preview |-> WireEnvelope(Get(body, "preview")),
                                         deleted |-> FALSE,
                                         written |-> ghost])
                             IN  Reply(Ok([item |-> ApiRecOf(R2, d, id)]), D, R2, seq)
                   [] req.method = "GET" ->
                        IF ~LiveRec(R, d, id) THEN Reply(ApiError(404), D, R, seq)
                        ELSE Reply(Ok([item |-> ApiRecOf(R, d, id)]), D, R, seq)
                   [] req.method = "DELETE" ->
                        IF ~LiveRec(R, d, id) THEN Reply(ApiError(404), D, R, seq)
                        ELSE Reply(Ok(Undefined), D,
                                   [R EXCEPT ![<<d, id>>].deleted = TRUE], seq)
                   [] OTHER -> Reply(ApiError(405), D, R, seq)
      [] path = <<"auth", "register">> /\ req.method = "POST" ->
            Reply(Ok([token |-> authToken]), D, R, seq)
      [] path = <<"auth", "login">> /\ req.method = "POST" ->
            Reply(Ok([challenge_id |-> Str("challenge"),
                      nonce |-> bytesToBase64(<<"rand", "server-nonce", seq, 32>>)]),
                  D, R, seq)
      [] path = <<"auth", "login", "verify">> /\ req.method = "POST" ->
            IF verifySignature(<<"rand", "server-nonce", seq, 32>>,
                               base64ToBytes(Get(body, "signed_nonce")),
                               credentials.signingPublicKey)
            THEN Reply(Ok([token |-> authToken]), D, R, seq)
            ELSE Reply(ApiError(401), D, R, seq)
      [] OTHER -> Reply(ApiError(404), D, R, seq)

-----------------------------------------------------------------------------
(* KeysAPI *)

NoKey == [id |-> "", value |-> Undefined, status |-> ""]

KeysPath(diaryId) == <<"diaries", diaryId, "keys">>

\* KeysAPI.decryptKey
EncryptionKeyOf(apiKey, key) ==
    IF ~key.ok THEN key
    ELSE Ok([id |-> apiKey.id, value |-> key.value, status |-> apiKey.status])

decryptKey(apiKey) ==
    EncryptionKeyOf(apiKey,
                    decryptWithPrivateKey(base64ToBytes(apiKey.value),
                                          credentials.encryptionPrivateKey,
                                          credentials.encryptionPublicKey))

\* Faulty variant of KeysList: a key that does not unseal is left out
KeysListSkipping(response) ==
    IF ~response.ok THEN response
    ELSE CollectGood([i \in 1..Len(response.value.keys) |->
                        decryptKey(response.value.keys[i])])

\* KeysAPI.list, given the response of its request: response.keys.map(decryptKey)
KeysList(response) ==
    IF ~response.ok THEN response
    ELSE Collect([i \in 1..Len(response.value.keys) |->
                    decryptKey(response.value.keys[i])])

\* KeysAPI.getActive, given the response of the request list makes
\* Faulty variant of FindActive: the first key, whatever its status
FindFirst(keys) ==
    IF ~keys.ok THEN keys
    ELSE IF Len(keys.value) = 0 THEN Err("NoActiveKeyError") ELSE Ok(keys.value[1])

\* getActive after `await this.list(diaryId)`, whose exception it lets through:
\* keys.find((k) => k.status === "active"), and the throw when none is
FindActive(keys) ==
    IF ~keys.ok THEN keys
    ELSE LET act == {i \in 1..Len(keys.value) : keys.value[i].status = "active"}
         IN  IF act = {}
             THEN Err("NoActiveKeyError")
             ELSE Ok(keys.value[CHOOSE i \in act : \A j \in act : i <= j])

KeysGetActive(response) == FindActive(KeysList(response))

-----------------------------------------------------------------------------
(* The resource APIs: what a write sends *)

\* NewVersion() of resources/version, whose body is not in the sources: some
\* version value
NewVersion == <<"num", 1>>

VersionOf(params) == IF params.version # Undefined THEN params.version ELSE NewVersion

OrFalse(v) == IF v # Undefined THEN v ELSE Bool(FALSE)

EncCall(use, key, data, e) ==
    [use |-> use, key |-> key, data |-> data, nonce |-> e.nonce,
     ciphertext |-> e.ciphertext]

\* A built write: the request object, the extra headers, the entity key, the
\* number of random draws made and the encryptWithSymmetricKey calls made.
Built(request, entityKey, draws, calls) ==
    [body |-> request,
     headers |-> [XSignature |->
        bytesToBase64(signBytes(TextEncode(JSONstringify(request)),
                                credentials.signingPrivateKey))],
     entityKey |-> entityKey,
     draws |-> draws,
     calls |-> calls]

\* DiariesAPI.create up to its request; r draws have been made before
DiariesCreateBuild(params, r) ==
    LET diaryKey == generateSymmetricKey(r + 1)
        entityKey == generateSymmetricKey(r + 2)
        details == Obj(<< <<"title", params.title>>,
                          <<"description", params.description>> >>)
        detailsJson == TextEncode(JSONstringify(details))
        det == encryptWithSymmetricKey(detailsJson, entityKey, r + 3)
        key == encryptWithSymmetricKey(entityKey, diaryKey, r + 4)
        encryptedDiaryKey ==
            encryptWithPublicKey(diaryKey, credentials.encryptionPublicKey, r + 5)
        request ==
            Obj(<< <<"encrypted_diary_key", bytesToBase64(encryptedDiaryKey)>>,
                   <<"details", Obj(<< <<"nonce", bytesToBase64(det.nonce)>>,
                                       <<"data", bytesToBase64(det.ciphertext)>> >>)>>,
                   <<"encryption",
                     Obj(<< <<"encrypted_key_nonce", bytesToBase64(key.nonce)>>,
                            <<"encrypted_key_data", bytesToBase64(key.ciphertext)>> >>)>> >>)
    IN  Built(request, entityKey, 5,
              << EncCall("details", entityKey, detailsJson, det),
                 EncCall("key", diaryKey, entityKey, key) >>)
        @@ [diaryKey |-> diaryKey]

\* Faulty variant of DiariesPutBuild: the request names the first key of the
\* diary, whichever key wraps the entity key
DiariesPutBuildFirstKeyId(params, encryptionKey, r) ==
    LET diaryKey == encryptionKey.value
        entityKey == generateSymmetricKey(r + 1)
        details == Obj(<< <<"title", params.title>>,
                          <<"description", params.description>> >>)
        detailsJson == TextEncode(JSONstringify(details))
        det == encryptWithSymmetricKey(detailsJson, entityKey, r + 2)
        key == encryptWithSymmetricKey(entityKey, diaryKey, r + 3)
        request ==
            Obj(<< <<"version", VersionOf(params)>>,
                   <<"details", Obj(<< <<"nonce", bytesToBase64(det.nonce)>>,
                                       <<"data", bytesToBase64(det.ciphertext)>> >>)>>,
                   <<"encryption",
                     Obj(<< <<"diary_key_id", Str(KeyIdOf[1])>>,
                            <<"encrypted_key_nonce", bytesToBase64(key.nonce)>>,
                            <<"encrypted_key_data", bytesToBase64(key.ciphertext)>> >>)>> >>)
    IN  Built(request, entityKey, 3,
              << EncCall("details", entityKey, detailsJson, det),
                 EncCall("key", diaryKey, entityKey, key) >>)

\* DiariesAPI.put from the key getActive returned up to its request
DiariesPutBuild(params, encryptionKey, r) ==
    LET diaryKey == encryptionKey.value
        entityKey == generateSymmetricKey(r + 1)
        details == Obj(<< <<"title", params.title>>,
                          <<"description", params.description>> >>)
        detailsJson == TextEncode(JSONstringify(details))
        det == encryptWithSymmetricKey(detailsJson, entityKey, r + 2)
        key == encryptWithSymmetricKey(entityKey, diaryKey, r + 3)
        request ==
            Obj(<< <<"version", VersionOf(params)>>,
                   <<"details", Obj(<< <<"nonce", bytesToBase64(det.nonce)>>,
                                       <<"data", bytesToBase64(det.ciphertext)>> >>)>>,
                   <<"encryption",
                     Obj(<< <<"diary_key_id", Str(encryptionKey.id)>>,
                            <<"encrypted_key_nonce", bytesToBase64(key.nonce)>>,
                            <<"encrypted_key_data", bytesToBase64(key.ciphertext)>> >>)>> >>)
    IN  Built(request, entityKey, 3,
              << EncCall("details", entityKey, detailsJson, det),
                 EncCall("key", diaryKey, entityKey, key) >>)

\* Faulty variant of TopicsPutBuild: the entity key is wrapped before the
\* details are encrypted
TopicsPutBuildWrapFirst(params, encryptionKey, r) ==
    LET diaryKey == encryptionKey.value
        entityKey == generateSymmetricKey(r + 1)
        details == Obj(<< <<"title", params.title>>,
                          <<"description", params.description>>,
                          <<"color", params.color>> >>)
        detailsJson == TextEncode(JSONstringify(details))
        det == encryptWithSymmetricKey(detailsJson, entityKey, r + 3)
        key == encryptWithSymmetricKey(entityKey, diaryKey, r + 2)
        request ==
            Obj(<< <<"version", VersionOf(params)>>,
                   <<"default_template_id", params.default_template_id>>,
                   <<"encryption",
                     Obj(<< <<"diary_key_id", Str(encryptionKey.id)>>,
                            <<"encrypted_key_nonce", bytesToBase64(key.nonce)>>,
                            <<"encrypted_key_data", bytesToBase64(key.ciphertext)>> >>)>>,
                   <<"details", Obj(<< <<"nonce", bytesToBase64(det.nonce)>>,
                                       <<"data", bytesToBase64(det.ciphertext)>> >>)>> >>)
    IN  Built(request, entityKey, 3,
              << EncCall("details", entityKey, detailsJson, det),
                 EncCall("key", diaryKey, entityKey, key) >>)

\* TopicsAPI.put from the key getActive returned up to its request
TopicsPutBuild(params, encryptionKey, r) ==
    LET diaryKey == encryptionKey.value
        entityKey == generateSymmetricKey(r + 1)
        details == Obj(<< <<"title", params.title>>,
                          <<"description", params.description>>,
                          <<"color", params.color>> >>)
        detailsJson == TextEncode(JSONstringify(details))
        det == encryptWithSymmetricKey(detailsJson, entityKey, r + 2)
        key == encryptWithSymmetricKey(entityKey, diaryKey, r + 3)
        request ==
            Obj(<< <<"version", VersionOf(params)>>,
                   <<"default_template_id", params.default_template_id>>,
                   <<"encryption",
                     Obj(<< <<"diary_key_id", Str(encryptionKey.id)>>,
                            <<"encrypted_key_nonce", bytesToBase64(key.nonce)>>,
                            <<"encrypted_key_data", bytesToBase64(key.ciphertext)>> >>)>>,
                   <<"details", Obj(<< <<"nonce", bytesToBase64(det.nonce)>>,
                                       <<"data", bytesToBase64(det.ciphertext)>> >>)>> >>)
    IN  Built(request, entityKey, 3,
              << EncCall("details", entityKey, detailsJson, det),
                 EncCall("key", diaryKey, entityKey, key) >>)

\* Faulty variant of EntriesPutBuild: the preview is the details ciphertext
\* sent a second time
EntriesPutBuildPreviewCopied(params, encryptionKey, r) ==
    LET diaryKey == encryptionKey.value
        entityKey == generateSymmetricKey(r + 1)
        details == Obj(<< <<"content", params.content>>,
                          <<"archived", OrFalse(params.archived)>>,
                          <<"bookmarked", OrFalse(params.bookmarked)>>,
                          <<"preview_hidden", OrFalse(params.preview_hidden)>> >>)
        detailsJson == TextEncode(JSONstringify(details))
        det == encryptWithSymmetricKey(detailsJson, entityKey, r + 2)
        pre == encryptWithSymmetricKey(detailsJson, entityKey, r + 2)
        key == encryptWithSymmetricKey(entityKey, diaryKey, r + 4)
        request ==
            Obj(<< <<"version", VersionOf(params)>>,
                   <<"topic_id", params.topic_id>>,
                   <<"encryption",
                     Obj(<< <<"diary_key_id", Str(encryptionKey.id)>>,
                            <<"encrypted_key_nonce", bytesToBase64(key.nonce)>>,
                            <<"encrypted_key_data", bytesToBase64(key.ciphertext)>> >>)>>,
                   <<"details", Obj(<< <<"nonce", bytesToBase64(det.nonce)>>,
                                       <<"data", bytesToBase64(det.ciphertext)>> >>)>>,
                   <<"preview", Obj(<< <<"nonce", bytesToBase64(pre.nonce)>>,
                                       <<"data", bytesToBase64(pre.ciphertext)>> >>)>> >>)
    IN  Built(request, entityKey, 4,
              << EncCall("details", entityKey, detailsJson, det),
                 EncCall("preview", entityKey, detailsJson, pre),
                 EncCall("key", diaryKey, entityKey, key) >>)

\* EntriesAPI.put from the key getActive returned up to its request
EntriesPutBuild(params, encryptionKey, r) ==
    LET diaryKey == encryptionKey.value
        entityKey == generateSymmetricKey(r + 1)
        details == Obj(<< <<"content", params.content>>,
                          <<"archived", OrFalse(params.archived)>>,
                          <<"bookmarked", OrFalse(params.bookmarked)>>,
                          <<"preview_hidden", OrFalse(params.preview_hidden)>> >>)
        detailsJson == TextEncode(JSONstringify(details))
        det == encryptWithSymmetricKey(detailsJson, entityKey, r + 2)
        pre == encryptWithSymmetricKey(detailsJson, entityKey, r + 3)
        key == encryptWithSymmetricKey(entityKey, diaryKey, r + 4)
        request ==
            Obj(<< <<"version", VersionOf(params)>>,
                   <<"topic_id", params.topic_id>>,
                   <<"encryption",
                     Obj(<< <<"diary_key_id", Str(encryptionKey.id)>>,
                            <<"encrypted_key_nonce", bytesToBase64(key.nonce)>>,
                            <<"encrypted_key_data", bytesToBase64(key.ciphertext)>> >>)>>,
                   <<"details", Obj(<< <<"nonce", bytesToBase64(det.nonce)>>,
                                       <<"data", bytesToBase64(det.ciphertext)>> >>)>>,
                   <<"preview", Obj(<< <<"nonce", bytesToBase64(pre.nonce)>>,
                                       <<"data", bytesToBase64(pre.ciphertext)>> >>)>> >>)
    IN  Built(request, entityKey, 4,
              << EncCall("details", entityKey, detailsJson, det),
                 EncCall("preview", entityKey, detailsJson, pre),
                 EncCall("key", diaryKey, entityKey, key) >>)

\* TemplatesAPI.put from the key getActive returned up to its request
TemplatesPutBuild(params, encryptionKey, r) ==
    LET diaryKey == encryptionKey.value
        entityKey == generateSymmetricKey(r + 1)
        details == Obj(<< <<"content", params.content>> >>)
        detailsJson == TextEncode(JSONstringify(details))
        det == encryptWithSymmetricKey(detailsJson, entityKey, r + 2)
        key == encryptWithSymmetricKey(entityKey, diaryKey, r + 3)
        request ==
            Obj(<< <<"version", VersionOf(params)>>,
                   <<"encryption",
                     Obj(<< <<"diary_key_id", Str(encryptionKey.id)>>,
                            <<"encrypted_key_nonce", ArrayFrom(key.nonce)>>,
                            <<"encrypted_key_data", ArrayFrom(key.ciphertext)>> >>)>>,
                   <<"details", Obj(<< <<"nonce", ArrayFrom(det.nonce)>>,
                                       <<"data", ArrayFrom(det.ciphertext)>> >>)>> >>)
    IN  Built(request, entityKey, 3,
              << EncCall("details", entityKey, detailsJson, det),
                 EncCall("key", diaryKey, entityKey, key) >>)

PutBuild(res, params, encryptionKey, r) ==
    CASE res = "topics" -> TopicsPutBuild(params, encryptionKey, r)
      [] res = "entries" -> EntriesPutBuild(params, encryptionKey, r)
      [] res = "templates" -> TemplatesPutBuild(params, encryptionKey, r)

\* the path of a topic, entry or template, or of their list when id = ""
RecPath(res, diaryId, id) ==
    LET base == IF res = "templates"
                THEN <<"diaries", diaryId, res>>
                ELSE <<"v1", "diaries", diaryId, res>>
    IN  IF id = "" THEN base ELSE Append(base, id)

DiaryPath(diaryId) == <<"v1", "diaries", diaryId>>
DiariesPath == <<"v1", "diaries">>

-----------------------------------------------------------------------------
(* The resource APIs: what a read returns *)

\* JSON.parse(new TextDecoder().decode(detailsBytes))
ParseDetails(detailsBytes) ==
    IF ~detailsBytes.ok THEN detailsBytes
    ELSE Ok(JSONparse(TextDecode(detailsBytes.value)))

\* the second decryption step of every decrypt* method, and the parsing
DetailsUnder(api, entityKey) ==
    IF ~entityKey.ok THEN entityKey
    ELSE ParseDetails(decryptWithSymmetricKey(base64ToBytes(api.details.nonce),
                                              base64ToBytes(api.details.data),
                                              entityKey.value))

\* Faulty variant of OpenDetails: the details are opened with the diary key
OpenDetailsWithDiaryKey(api, diaryKey) ==
    ParseDetails(decryptWithSymmetricKey(base64ToBytes(api.details.nonce),
                                         base64ToBytes(api.details.data),
                                         diaryKey))

\* the two decryption steps every decrypt* method starts with, and JSON.parse
OpenDetails(api, diaryKey) ==
    DetailsUnder(api,
                 decryptWithSymmetricKey(
                     base64ToBytes(api.encryption.encrypted_key_nonce),
                     base64ToBytes(api.encryption.encrypted_key_data),
                     diaryKey))

\* Faulty variant of getDiaryKey: the last key of the diary is taken
getDiaryKeyLast(apiDiary) ==
    IF Len(apiDiary.encryption_keys) = 0
    THEN Err("TypeError")
    ELSE decryptWithPrivateKey(
             base64ToBytes(apiDiary.encryption_keys[Len(apiDiary.encryption_keys)].value),
             credentials.encryptionPrivateKey,
             credentials.encryptionPublicKey)

\* DiariesAPI.getDiaryKey
getDiaryKey(apiDiary) ==
    IF Len(apiDiary.encryption_keys) = 0
    THEN Err("TypeError")
    ELSE decryptWithPrivateKey(base64ToBytes(apiDiary.encryption_keys[1].value),
                               credentials.encryptionPrivateKey,
                               credentials.encryptionPublicKey)

\* DiariesAPI.decryptDiary
DiaryDetails(apiDiary, diaryKey) ==
    IF ~diaryKey.ok THEN diaryKey ELSE OpenDetails(apiDiary, diaryKey.value)

DiaryOf(apiDiary, details) ==
    IF ~details.ok THEN details
    ELSE Ok([id |-> apiDiary.id,
             title |-> Get(details.value, "title"),
             description |-> Get(details.value, "description"),
             version |-> apiDiary.version])

decryptDiary(apiDiary) ==
    DiaryOf(apiDiary, DiaryDetails(apiDiary, getDiaryKey(apiDiary)))

\* TopicsAPI.decryptTopic
TopicOf(apiTopic, details) ==
    IF ~details.ok THEN details
    ELSE Ok([id |-> apiTopic.id,
             diary_id |-> apiTopic.diary_id,
             title |-> Get(details.value, "title"),
             description |-> Get(details.value, "description"),
             color |-> Get(details.value, "color"),
             version |-> apiTopic.version])

decryptTopic(apiTopic, diaryKey) ==
    TopicOf(apiTopic, OpenDetails(apiTopic, diaryKey))

\* EntriesAPI.decryptEntry
EntryOf(apiEntry, details) ==
    IF ~details.ok THEN details
    ELSE Ok([id |-> apiEntry.id,
             diary_id |-> apiEntry.diary_id,
             content |-> Get(details.value, "content"),
             archived |-> Get(details.value, "archived"),
             bookmarked |-> Get(details.value, "bookmarked"),
             preview_hidden |-> Get(details.value, "preview_hidden"),
             version |-> apiEntry.version])

decryptEntry(apiEntry, diaryKey) ==
    EntryOf(apiEntry, OpenDetails(apiEntry, diaryKey))

\* TemplatesAPI.decryptTemplate
TemplateOf(apiTemplate, details) ==
    IF ~details.ok THEN details
    ELSE Ok([id |-> apiTemplate.id,
             diary_id |-> apiTemplate.diary_id,
             content |-> Get(details.value, "content"),
             version |-> apiTemplate.version])

decryptTemplate(apiTemplate, diaryKey) ==
    TemplateOf(apiTemplate, OpenDetails(apiTemplate, diaryKey))

\* Faulty variant of decryptRec: the record is unwrapped with the key its
\* encryption.diary_key_id names, the key it was written under
decryptRecByKeyId(res, api, diaryKey) ==
    CASE res = "topics" -> decryptTopic(api, api.written.wrapKey)
      [] res = "entries" -> decryptEntry(api, api.written.wrapKey)
      [] res = "templates" -> decryptTemplate(api, api.written.wrapKey)

decryptRec(res, api, diaryKey) ==
    CASE res = "topics" -> decryptTopic(api, diaryKey)
      [] res = "entries" -> decryptEntry(api, diaryKey)
      [] res = "templates" -> decryptTemplate(api, diaryKey)

\* DiariesAPI: what create, put, get, list and delete return on a response
DiariesReturn(kind, v) ==
    CASE kind \in {"diaries.create", "diaries.put", "diaries.get"} ->
            decryptDiary(v.diary)
      [] kind = "diaries.list" ->
            Collect([i \in 1..Len(v.diaries) |-> decryptDiary(v.diaries[i])])
      [] kind = "diaries.delete" -> Ok(Undefined)

\* KeysAPI: what list and getActive return on a response
KeysReturn(kind, v) ==
    CASE kind = "keys.list" -> KeysList(Ok(v))
      [] kind = "keys.getActive" -> KeysGetActive(Ok(v))

\* TopicsAPI, EntriesAPI, TemplatesAPI: what put, get, list and delete return
\* on a response, diaryKey being the key getActive returned
RecReturn(res, kind, v, diaryKey) ==
    CASE kind \in {"put", "get"} -> decryptRec(res, v.item, diaryKey)
      [] kind = "list" ->
            Collect([i \in 1..Len(v.items) |-> decryptRec(res, v.items[i], diaryKey)])
      [] kind = "delete" -> Ok(Undefined)

\* register, login: response.token
AuthReturn(v) == Ok(v.token)

-----------------------------------------------------------------------------
(* Parameters of the calls *)

DiaryParams == [title : Texts, description : {Str("d")}, version : {Undefined}]
NewDiaryParams == [title : {Str("new")}, description : {Undefined}]
TopicParams ==
    [title : Texts, description : {Str("d")}, color : {Str("red")},
     default_template_id : {Undefined}, version : {Undefined}]
EntryParams ==
    [content : Texts, topic_id : {Undefined}, archived : {Undefined},
     bookmarked : {Bool(TRUE)}, preview_hidden : {Undefined}, version : {Undefined}]
TemplateParams == [content : Texts, version : {Undefined}]

ParamsOf(res) ==
    CASE res = "topics" -> TopicParams
      [] res = "entries" -> EntryParams
      [] res = "templates" -> TemplateParams

-----------------------------------------------------------------------------
(* State *)

Idle ==
    [kind |-> "none", pc |-> "idle", n |-> 0, d |-> "", id |-> "",
     params |-> Undefined, key |-> NoKey, entityKey |-> Undefined,
     reqs |-> <<>>, resps |-> <<>>, result |-> Ok(Undefined)]

LabIdle == [pc |-> "off"]

Init ==
    /\ rtype \in Resources
    /\ ops = [o \in Slots |-> Idle]
    /\ nops = 0
    /\ rng = 0
    /\ encLog = <<>>
    /\ keyFetches = [d \in DiaryIds |-> 0]
    /\ keyNeeds = [d \in DiaryIds |-> 0]
    /\ srvDiaries = <<>>
    /\ srvRecs = <<>>
    /\ srvSeq = 0
    /\ lab = LabIdle

CanCall(o) == ops[o].pc \in {"idle", "done"} /\ nops < MaxOps

\* the calls of a built write, as entries of encLog made by the operation
Logged(calls, slot) ==
    [i \in 1..Len(calls) |->
        calls[i] @@ [n |-> slot.n, kind |-> slot.kind, d |-> slot.d, id |-> slot.id]]

Ghost(o) ==
    [params |-> ops[o].params, wrapKey |-> ops[o].key.value, n |-> ops[o].n]

UNCHANGED_server == UNCHANGED <<srvDiaries, srvRecs, srvSeq>>
UNCHANGED_keys == UNCHANGED <<keyFetches, keyNeeds>>
UNCHANGED_crypto == UNCHANGED <<rng, encLog>>

KeysRequest(diaryId) ==
    HttpRequest(authToken, KeysPath(diaryId), "GET", Undefined, NoHeaders)

\* Faulty variant of KeyFetchRequests: the keys of a diary are fetched once
KeyFetchOnce(diaryId) ==
    IF keyFetches[diaryId] > 0 THEN <<>> ELSE <<KeysRequest(diaryId)>>

\* the requests KeysAPI.list sends for one call: it keeps nothing between calls
KeyFetchRequests(diaryId) == <<KeysRequest(diaryId)>>

\* keyFetches after the requests reqs have gone out
CountFetches(reqs) ==
    [d \in DiaryIds |->
        keyFetches[d] + Cardinality({i \in 1..Len(reqs) :
                                        /\ reqs[i].method = "GET"
                                        /\ reqs[i].path = KeysPath(d)})]

-----------------------------------------------------------------------------
(* DiariesAPI *)

\* Faulty variant of Send: the draws of the call are not taken from the
\* generator, so that the next call draws them again
SendSharedDraws(o, slot, b, method, path) ==
    /\ ops' = [ops EXCEPT ![o] =
          [slot EXCEPT !.pc = "sent", !.entityKey = b.entityKey,
                       !.reqs = Append(@, HttpRequest(authToken, path, method,
                                                      b.body, b.headers))]]
    /\ rng' = rng
    /\ encLog' = encLog \o Logged(b.calls, slot)

\* the request of a built write or of a read goes out
Send(o, slot, b, method, path) ==
    /\ ops' = [ops EXCEPT ![o] =
          [slot EXCEPT !.pc = "sent", !.entityKey = b.entityKey,
                       !.reqs = Append(@, HttpRequest(authToken, path, method,
                                                      b.body, b.headers))]]
    /\ rng' = rng + b.draws
    /\ encLog' = encLog \o Logged(b.calls, slot)

\* what the call of slot returns on the response of its last request:
\* the ApiError of HttpClient.request propagates, a body goes to the method
Returned(slot, response) ==
    IF ~response.ok THEN response
    ELSE CASE slot.kind \in {"diaries.create", "diaries.put", "diaries.get",
                             "diaries.list", "diaries.delete"} ->
                 DiariesReturn(slot.kind, response.value)
           [] slot.kind \in {"keys.list", "keys.getActive"} ->
                 KeysReturn(slot.kind, response.value)
           [] slot.kind \in {"put", "get", "list", "delete"} ->
                 RecReturn(rtype, slot.kind, response.value, slot.key.value)
           [] slot.kind \in {"register", "login"} ->
                 AuthReturn(response.value)

\* the response is in: the server has moved, and the call returns or throws
Complete(o, slot, reply) ==
    /\ ops' = [ops EXCEPT ![o] =
          [slot EXCEPT !.pc = "done", !.resps = Append(@, reply.resp),
                       !.result = Returned(slot, reply.resp)]]
    /\ srvDiaries' = reply.D
    /\ srvRecs' = reply.R
    /\ srvSeq' = reply.seq

\* create: both keys, both encryptions, the sealed diary key, the signature,
\* and the POST is on its way
DiariesCreateSend(o, params, b) ==
    Send(o, [Idle EXCEPT !.kind = "diaries.create", !.n = nops + 1,
                         !.params = params,
                         !.key = [id |-> "", value |-> b.diaryKey, status |-> ""]],
         b, "POST", DiariesPath)

DiariesCreate(o, params) ==
    /\ CanCall(o)
    /\ Cardinality(DOMAIN srvDiaries) < MaxDiaries
    /\ DiariesCreateSend(o, params, DiariesCreateBuild(params, rng))
    /\ nops' = nops + 1
    /\ UNCHANGED_server /\ UNCHANGED_keys /\ UNCHANGED <<rtype, lab>>

\* a read sends no body and draws nothing
NoBuild ==
    [body |-> Undefined, headers |-> NoHeaders, entityKey |-> Undefined,
     draws |-> 0, calls |-> <<>>]

\* what the call of slot builds with the active key before its request
BuildFor(slot, key) ==
    CASE slot.kind = "diaries.put" -> DiariesPutBuild(slot.params, key, rng)
      [] slot.kind = "put" -> PutBuild(rtype, slot.params, key, rng)
      [] OTHER -> NoBuild

\* Faulty variant of AfterGetActive: the exception of getActive is kept for
\* later and the request is built and sent without a key
AfterGetActiveSendAnyway(o, slot, active, method, path) ==
    IF ~active.ok
    THEN Send(o, [slot EXCEPT !.result = active], BuildFor(slot, NoKey), method, path)
    ELSE Send(o, [slot EXCEPT !.key = active.value], BuildFor(slot, active.value),
              method, path)

\* after keysAPI.getActive(diaryId): its exception ends the call, its key
\* goes into the request the call builds
AfterGetActive(o, slot, active, method, path) ==
    IF ~active.ok
    THEN /\ ops' = [ops EXCEPT ![o] = [slot EXCEPT !.pc = "done", !.result = active]]
         /\ UNCHANGED_crypto
    ELSE Send(o, [slot EXCEPT !.key = active.value], BuildFor(slot, active.value),
              method, path)

\* a call that starts with keysAPI.getActive(diaryId): the key request is
\* served, and the request that follows is on its way
GotKeys(o, slot, response, method, path) ==
    AfterGetActive(o, [slot EXCEPT !.resps = <<response>>],
                   KeysGetActive(response), method, path)

WithActiveKey(o, kind, d, id, params, method, path) ==
    /\ CanCall(o)
    /\ GotKeys(o,
            [Idle EXCEPT !.kind = kind, !.n = nops + 1, !.d = d, !.id = id,
                         !.params = params, !.reqs = KeyFetchRequests(d)],
            Serve(KeysRequest(d), srvDiaries, srvRecs, srvSeq, Undefined).resp,
            method, path)
    /\ keyFetches' = CountFetches(KeyFetchRequests(d))
    /\ keyNeeds' = [keyNeeds EXCEPT ![d] = @ + 1]
    /\ nops' = nops + 1
    /\ UNCHANGED_server /\ UNCHANGED <<rtype, lab>>

DiariesPut(o, d, params) ==
    WithActiveKey(o, "diaries.put", d, "", params, "PUT", DiaryPath(d))

\* the response of create or put arrives: decryptDiary(response.diary)
DiariesWriteResponse(o) ==
    /\ ops[o].pc = "sent"
    /\ ops[o].kind \in {"diaries.create", "diaries.put"}
    /\ Complete(o, ops[o],
                Serve(ops[o].reqs[Len(ops[o].reqs)], srvDiaries, srvRecs, srvSeq,
                      Ghost(o)))
    /\ UNCHANGED_keys /\ UNCHANGED_crypto /\ UNCHANGED <<rtype, nops, lab>>

\* a call of one request without a body, served at once
OneRequest(o, kind, d, id, method, path) ==
    /\ CanCall(o)
    /\ Complete(o,
                [Idle EXCEPT !.kind = kind, !.n = nops + 1, !.d = d, !.id = id,
                             !.reqs = <<HttpRequest(authToken, path, method,
                                                    Undefined, NoHeaders)>>],
                Serve(HttpRequest(authToken, path, method, Undefined, NoHeaders),
                      srvDiaries, srvRecs, srvSeq, Undefined))
    /\ keyFetches' = CountFetches(<<HttpRequest(authToken, path, method,
                                                Undefined, NoHeaders)>>)
    /\ nops' = nops + 1
    /\ UNCHANGED_crypto /\ UNCHANGED <<rtype, lab>>

DiariesGet(o, d) ==
    /\ OneRequest(o, "diaries.get", d, "", "GET", DiaryPath(d))
    /\ UNCHANGED keyNeeds

DiariesList(o) ==
    /\ OneRequest(o, "diaries.list", "", "", "GET", DiariesPath)
    /\ UNCHANGED keyNeeds

DiariesDelete(o, d) ==
    /\ OneRequest(o, "diaries.delete", d, "", "DELETE", DiaryPath(d))
    /\ UNCHANGED keyNeeds

-----------------------------------------------------------------------------
(* KeysAPI, called directly *)

KeysListCall(o, d) ==
    /\ OneRequest(o, "keys.list", d, "", "GET", KeysPath(d))
    /\ keyNeeds' = [keyNeeds EXCEPT ![d] = @ + 1]

KeysGetActiveCall(o, d) ==
    /\ OneRequest(o, "keys.getActive", d, "", "GET", KeysPath(d))
    /\ keyNeeds' = [keyNeeds EXCEPT ![d] = @ + 1]

-----------------------------------------------------------------------------
(* TopicsAPI, EntriesAPI, TemplatesAPI *)

RecPut(o, res, d, id, params) ==
    /\ rtype = res
    /\ WithActiveKey(o, "put", d, id, params, "PUT", RecPath(res, d, id))

RecGet(o, res, d, id) ==
    /\ rtype = res
    /\ WithActiveKey(o, "get", d, id, Undefined, "GET", RecPath(res, d, id))

RecList(o, res, d) ==
    /\ rtype = res
    /\ WithActiveKey(o, "list", d, "", Undefined, "GET", RecPath(res, d, ""))

RecDelete(o, res, d, id) ==
    /\ rtype = res
    /\ OneRequest(o, "delete", d, id, "DELETE", RecPath(res, d, id))
    /\ UNCHANGED keyNeeds

TopicsPut(o, d, id, params) == RecPut(o, "topics", d, id, params)
TopicsGet(o, d, id) == RecGet(o, "topics", d, id)
TopicsList(o, d) == RecList(o, "topics", d)
\* TopicsAPI.delete: options.deleteEntries puts a query behind the path
TopicsDelete(o, d, id, deleteEntries) ==
    /\ rtype = "topics"
    /\ OneRequest(o, "delete", d, id, "DELETE",
                  RecPath("topics", d, id) \o DeleteQuery(deleteEntries))
    /\ UNCHANGED keyNeeds

EntriesPut(o, d, id, params) == RecPut(o, "entries", d, id, params)
EntriesGet(o, d, id) == RecGet(o, "entries", d, id)
EntriesList(o, d) == RecList(o, "entries", d)
EntriesDelete(o, d, id) == RecDelete(o, "entries", d, id)

TemplatesPut(o, d, id, params) == RecPut(o, "templates", d, id, params)
TemplatesGet(o, d, id) == RecGet(o, "templates", d, id)
TemplatesList(o, d) == RecList(o, "templates", d)
TemplatesDelete(o, d, id) == RecDelete(o, "templates", d, id)

\* the response of put, get or list arrives and is decrypted with the key
\* fetched when the call started
RecResponse(o) ==
    /\ ops[o].pc = "sent"
    /\ ops[o].kind \in {"put", "get", "list"}
    /\ Complete(o, ops[o],
                Serve(ops[o].reqs[Len(ops[o].reqs)], srvDiaries, srvRecs, srvSeq,
                      Ghost(o)))
    /\ UNCHANGED_keys /\ UNCHANGED_crypto /\ UNCHANGED <<rtype, nops, lab>>

-----------------------------------------------------------------------------
(* register and login: they precede the Client, whose token they return *)

Logins == {Str("alice")}
Passwords == {Str("hunter2")}

\* Faulty variant of RegisterRequest: the private keys are sent
RegisterRequestPrivate(login, password) ==
    HttpRequest(Undefined, <<"v1", "auth", "register">>, "POST",
                Obj(<< <<"login", login>>,
                       <<"password", password>>,
                       <<"signature_public_key",
                         bytesToBase64(credentials.signingPrivateKey)>>,
                       <<"encryption_public_key",
                         bytesToBase64(credentials.encryptionPrivateKey)>> >>),
                NoHeaders)

RegisterRequest(login, password) ==
    HttpRequest(Undefined, <<"v1", "auth", "register">>, "POST",
                Obj(<< <<"login", login>>,
                       <<"password", password>>,
                       <<"signature_public_key",
                         bytesToBase64(credentials.signingPublicKey)>>,
                       <<"encryption_public_key",
                         bytesToBase64(credentials.encryptionPublicKey)>> >>),
                NoHeaders)

LoginRequest(login, password) ==
    HttpRequest(Undefined, <<"v1", "auth", "login">>, "POST",
                Obj(<< <<"login", login>>, <<"password", password>> >>),
                NoHeaders)

\* steps 2 and 3 of login: sign the nonce of the challenge, send it back
LoginVerifyRequest(loginResp) ==
    HttpRequest(Undefined, <<"v1", "auth", "login", "verify">>, "POST",
                Obj(<< <<"challenge_id", loginResp.challenge_id>>,
                       <<"signed_nonce",
                         bytesToBase64(signBytes(base64ToBytes(loginResp.nonce),
                                                 credentials.signingPrivateKey))>> >>),
                NoHeaders)

BeforeSession(o) == nops = 0 /\ ops[o].kind \in {"none", "register"}

Register(o, login, password) ==
    /\ BeforeSession(o)
    /\ Complete(o,
                [Idle EXCEPT !.kind = "register",
                             !.reqs = <<RegisterRequest(login, password)>>],
                Serve(RegisterRequest(login, password), srvDiaries, srvRecs, srvSeq,
                      Undefined))
    /\ UNCHANGED_keys /\ UNCHANGED_crypto /\ UNCHANGED <<rtype, nops, lab>>

LoginVerify(o, slot, loginResp) ==
    IF ~loginResp.ok
    THEN /\ ops' = [ops EXCEPT ![o] = [slot EXCEPT !.pc = "done", !.result = loginResp]]
         /\ UNCHANGED_server
    ELSE Complete(o,
                  [slot EXCEPT !.reqs = Append(@, LoginVerifyRequest(loginResp.value))],
                  Serve(LoginVerifyRequest(loginResp.value), srvDiaries, srvRecs,
                        srvSeq, Undefined))

Login(o, login, password) ==
    /\ BeforeSession(o)
    /\ LoginVerify(o,
                   [Idle EXCEPT !.kind = "login",
                                !.reqs = <<LoginRequest(login, password)>>,
                                !.resps = <<Serve(LoginRequest(login, password),
                                                  srvDiaries, srvRecs, srvSeq,
                                                  Undefined).resp>>],
                   Serve(LoginRequest(login, password), srvDiaries, srvRecs, srvSeq,
                         Undefined).resp)
    /\ UNCHANGED_keys /\ UNCHANGED_crypto /\ UNCHANGED <<rtype, nops, lab>>

-----------------------------------------------------------------------------
(* The primitives on their own, as crypto/encryption.test.ts exercises them *)

NumLabKeys == 3

LabKeys == {<<"rand", "lab", i, 32>> : i \in 1..NumLabKeys}
LabMessages ==
    {TextEncode(Str("")), TextEncode(Str("Hello, World!")),
     TextEncode(Str("secret")), <<"rand", "lab", 0, 32>>}

NoEnc == [nonce |-> Undefined, ciphertext |-> Undefined]

CryptoInit ==
    /\ rtype = "topics"
    /\ ops = [o \in Slots |-> Idle]
    /\ nops = 0
    /\ rng = 0
    /\ encLog = <<>>
    /\ keyFetches = [d \in DiaryIds |-> 0]
    /\ keyNeeds = [d \in DiaryIds |-> 0]
    /\ srvDiaries = <<>>
    /\ srvRecs = <<>>
    /\ srvSeq = 0
    /\ lab \in [pc : {"start"}, m : LabMessages, k : LabKeys, k2 : LabKeys,
                 e1 : {NoEnc}, e2 : {NoEnc}, out : {Ok(Undefined)}]

LabLogged(e) ==
    EncCall("lab", lab.k, lab.m, e) @@ [n |-> 0, kind |-> "lab", d |-> "", id |-> ""]

UNCHANGED_session ==
    UNCHANGED <<rtype, ops, nops, keyFetches, keyNeeds, srvDiaries, srvRecs, srvSeq>>

\* encryptWithSymmetricKey(m, k)
LabEncrypt ==
    /\ lab.pc = "start"
    /\ lab' = [lab EXCEPT !.pc = "encrypted",
                          !.e1 = encryptWithSymmetricKey(lab.m, lab.k, rng + 1)]
    /\ rng' = rng + 1
    /\ encLog' = Append(encLog,
                        LabLogged(encryptWithSymmetricKey(lab.m, lab.k, rng + 1)))
    /\ UNCHANGED_session

\* encryptWithSymmetricKey(m, k) once more
LabEncryptAgain ==
    /\ lab.pc = "encrypted"
    /\ lab' = [lab EXCEPT !.pc = "twice",
                          !.e2 = encryptWithSymmetricKey(lab.m, lab.k, rng + 1)]
    /\ rng' = rng + 1
    /\ encLog' = Append(encLog,
                        LabLogged(encryptWithSymmetricKey(lab.m, lab.k, rng + 1)))
    /\ UNCHANGED_session

\* decryptWithSymmetricKey(nonce, ciphertext, k2) of the first encryption
LabDecrypt ==
    /\ lab.pc \in {"encrypted", "twice"}
    /\ lab' = [lab EXCEPT !.pc = "decrypted",
                          !.out = decryptWithSymmetricKey(lab.e1.nonce,
                                                          lab.e1.ciphertext, lab.k2)]
    /\ UNCHANGED_crypto /\ UNCHANGED_session

CryptoNext == LabEncrypt \/ LabEncryptAgain \/ LabDecrypt

CryptoSpec == CryptoInit /\ [][CryptoNext]_vars

-----------------------------------------------------------------------------
(* The sealed box on its own, as crypto/encryption.test.ts exercises it *)

MaxRawLen == 34

\* generateKeyPair() of the tests: the i-th key pair
LabKeyPair(i) ==
    [secretKey |-> <<"rand", "lab", i, 32>>,
     publicKey |-> x25519PublicKey(<<"rand", "lab", i, 32>>)]

LabData ==
    {TextEncode(Str("")), TextEncode(Str("Confidential data")),
     TextEncode(Str("Same plaintext")), <<"rand", "lab", 0, 32>>}

\* new Uint8Array(n)
Raw(n) == <<"raw", n>>

SealInit ==
    /\ rtype = "topics"
    /\ ops = [o \in Slots |-> Idle]
    /\ nops = 0
    /\ rng = 0
    /\ encLog = <<>>
    /\ keyFetches = [d \in DiaryIds |-> 0]
    /\ keyNeeds = [d \in DiaryIds |-> 0]
    /\ srvDiaries = <<>>
    /\ srvRecs = <<>>
    /\ srvSeq = 0
    /\ lab \in [pc : {"start"}, data : LabData,
                 kp : 1..NumLabKeys, kp2 : 1..NumLabKeys,
                 s1 : {Undefined}, s2 : {Undefined}, input : {Undefined},
                 out1 : {Ok(Undefined)}, out2 : {Ok(Undefined)}]

\* encryptWithPublicKey(data, keyPair.publicKey)
LabSeal ==
    /\ lab.pc = "start"
    /\ lab' = [lab EXCEPT !.pc = "sealed",
                          !.s1 = encryptWithPublicKey(lab.data,
                                                      LabKeyPair(lab.kp).publicKey,
                                                      rng + 1)]
    /\ rng' = rng + 1
    /\ UNCHANGED encLog /\ UNCHANGED_session

\* encryptWithPublicKey(data, keyPair.publicKey) once more
LabSealAgain ==
    /\ lab.pc = "sealed"
    /\ lab' = [lab EXCEPT !.pc = "twice",
                          !.s2 = encryptWithPublicKey(lab.data,
                                                      LabKeyPair(lab.kp).publicKey,
                                                      rng + 1)]
    /\ rng' = rng + 1
    /\ UNCHANGED encLog /\ UNCHANGED_session

\* decryptWithPrivateKey of both boxes with the key pair kp2
LabUnseal ==
    /\ lab.pc = "twice"
    /\ lab' = [lab EXCEPT !.pc = "unsealed",
                          !.out1 = decryptWithPrivateKey(lab.s1,
                                        LabKeyPair(lab.kp2).secretKey,
                                        LabKeyPair(lab.kp2).publicKey),
                          !.out2 = decryptWithPrivateKey(lab.s2,
                                        LabKeyPair(lab.kp2).secretKey,
                                        LabKeyPair(lab.kp2).publicKey)]
    /\ UNCHANGED_crypto /\ UNCHANGED_session

\* decryptWithPrivateKey of n bytes that no one sealed
LabUnsealRaw(n) ==
    /\ lab.pc = "start"
    /\ lab' = [lab EXCEPT !.pc = "raw",
                          !.input = Raw(n),
                          !.out1 = decryptWithPrivateKey(Raw(n),
                                        LabKeyPair(lab.kp2).secretKey,
                                        LabKeyPair(lab.kp2).publicKey)]
    /\ UNCHANGED_crypto /\ UNCHANGED_session

SealNext ==
    \/ LabSeal
    \/ LabSealAgain
    \/ LabUnseal
    \/ \E n \in 0..MaxRawLen : LabUnsealRaw(n)

SealSpec == SealInit /\ [][SealNext]_vars

-----------------------------------------------------------------------------
(* Signatures on their own, as crypto/signature.test.ts exercises them *)

MaxBit == 8

\* randomPrivateKey() of the tests: the i-th private key
LabPrivateKey(i) == <<"rand", "lab", i, 32>>

SigMessages ==
    {TextEncode(Str("")), TextEncode(Str("a")), TextEncode(Str("Hello")),
     <<"rand", "lab", 0, 32>>}

\* bytes[i >> 3] ^= 1 << (i & 7): other bytes than b, and b again when
\* the same bit is flipped back
Flip(b, i) == IF b[1] = "flip" /\ b[3] = i THEN b[2] ELSE <<"flip", b, i>>

NoVerdict == "none"

SigInit ==
    /\ rtype = "topics"
    /\ ops = [o \in Slots |-> Idle]
    /\ nops = 0
    /\ rng = 0
    /\ encLog = <<>>
    /\ keyFetches = [d \in DiaryIds |-> 0]
    /\ keyNeeds = [d \in DiaryIds |-> 0]
    /\ srvDiaries = <<>>
    /\ srvRecs = <<>>
    /\ srvSeq = 0
    /\ lab \in [pc : {"start"}, m : SigMessages, sk : 1..NumLabKeys,
                 m2 : {Undefined}, sk2 : {0}, sig1 : {Undefined}, sig2 : {Undefined},
                 tamper : {"none"}, bit : {0}, verdict : {NoVerdict}]

\* signature = signBytes(message, privateKey)
LabSign ==
    /\ lab.pc = "start"
    /\ lab' = [lab EXCEPT !.pc = "signed",
                          !.sig1 = signBytes(lab.m, LabPrivateKey(lab.sk))]
    /\ UNCHANGED_crypto /\ UNCHANGED_session

\* a second signBytes, of the message m2 with the private key k2
LabSignAgain(m2, k2) ==
    /\ lab.pc = "signed"
    /\ lab' = [lab EXCEPT !.pc = "twice", !.m2 = m2, !.sk2 = k2,
                          !.sig2 = signBytes(m2, LabPrivateKey(k2))]
    /\ UNCHANGED_crypto /\ UNCHANGED_session

\* verifySignature of the message, the signature and the public key of the
\* signer, one of them tampered with or none
LabVerify(tamper, i, k2) ==
    /\ lab.pc = "signed"
    /\ CASE tamper = "none" -> i = 0 /\ k2 = lab.sk
         [] tamper = "message" -> i < 8 * ByteLen(lab.m) /\ k2 = lab.sk
         [] tamper = "signature" -> i < 8 * ByteLen(lab.sig1) /\ k2 = lab.sk
         [] tamper = "key" -> i = 0 /\ k2 # lab.sk
    /\ lab' = [lab EXCEPT
                 !.pc = "verified", !.tamper = tamper, !.bit = i, !.sk2 = k2,
                 !.verdict =
                    verifySignature(
                        IF tamper = "message" THEN Flip(lab.m, i) ELSE lab.m,
                        IF tamper = "signature" THEN Flip(lab.sig1, i) ELSE lab.sig1,
                        ed25519PublicKey(LabPrivateKey(k2)))]
    /\ UNCHANGED_crypto /\ UNCHANGED_session

SigNext ==
    \/ LabSign
    \/ \E m2 \in SigMessages, k2 \in 1..NumLabKeys : LabSignAgain(m2, k2)
    \/ \E tamper \in {"none", "message", "signature", "key"},
          i \in 0..MaxBit, k2 \in 1..NumLabKeys : LabVerify(tamper, i, k2)

SigSpec == SigInit /\ [][SigNext]_vars

-----------------------------------------------------------------------------
(* deriveCredentials on its own, as the Credentials tests exercise it *)

SeedPhrases ==
    {"test seed phrase", "seed1", "seed2", "alpha", "", "Test seed phrase"}

NoCredentials ==
    [encryptionPublicKey |-> Undefined, encryptionPrivateKey |-> Undefined,
     signingPublicKey |-> Undefined, signingPrivateKey |-> Undefined]

CredInit ==
    /\ rtype = "topics"
    /\ ops = [o \in Slots |-> Idle]
    /\ nops = 0
    /\ rng = 0
    /\ encLog = <<>>
    /\ keyFetches = [d \in DiaryIds |-> 0]
    /\ keyNeeds = [d \in DiaryIds |-> 0]
    /\ srvDiaries = <<>>
    /\ srvRecs = <<>>
    /\ srvSeq = 0
    /\ lab \in [pc : {"start"}, seed1 : SeedPhrases, seed2 : SeedPhrases,
                 creds1 : {NoCredentials}, creds2 : {NoCredentials}]

\* const creds1 = deriveCredentials(seed1)
LabDerive ==
    /\ lab.pc \in {"start", "second"}
    /\ lab' = [lab EXCEPT !.pc = IF lab.pc = "start" THEN "first" ELSE "both",
                          !.creds1 = deriveCredentials(lab.seed1)]
    /\ UNCHANGED_crypto /\ UNCHANGED_session

\* const creds2 = deriveCredentials(seed2)
LabDeriveAgain ==
    /\ lab.pc \in {"start", "first"}
    /\ lab' = [lab EXCEPT !.pc = IF lab.pc = "start" THEN "second" ELSE "both",
                          !.creds2 = deriveCredentials(lab.seed2)]
    /\ UNCHANGED_crypto /\ UNCHANGED_session

CredNext == LabDerive \/ LabDeriveAgain

CredSpec == CredInit /\ [][CredNext]_vars

-----------------------------------------------------------------------------
(* HttpClient.request on the responses a server or a gateway can send *)

\* the status codes of the responses; Response.ok is a status of 200..299
Statuses == {200, 204, 400, 401, 404, 500, 502}
ResOk(status) == status \in 200..299

\* the bodies of the responses: a JSON object with or without the error
\* fields, the JSON text null, and a text that is no JSON
ErrorBodies ==
    {[kind |-> "object", error_code |-> Str("not_found"),
      error_reason |-> Str("diary not found")],
     [kind |-> "object", error_code |-> Undefined, error_reason |-> Undefined],
     [kind |-> "null", error_code |-> Undefined, error_reason |-> Undefined],
     [kind |-> "text", error_code |-> Undefined, error_reason |-> Undefined]}

\* new ApiError(statusCode, errorCode, errorReason)
ApiErrorWith(statusCode, errorCode, errorReason) ==
    [ok |-> FALSE, value |-> Undefined, err |-> "ApiError", status |-> statusCode,
     errorCode |-> errorCode, errorReason |-> errorReason]

\* an exception that is no ApiError: it has no statusCode
Thrown(name) ==
    [ok |-> FALSE, value |-> Undefined, err |-> name, status |-> 0,
     errorCode |-> Undefined, errorReason |-> Undefined]

Parsed(body) ==
    [ok |-> TRUE, value |-> body, err |-> "none", status |-> 0,
     errorCode |-> Undefined, errorReason |-> Undefined]

\* HttpClient.request from the response on: what the call returns or throws
HttpResponse(status, body) ==
    IF ~ResOk(status)
    THEN IF body.kind = "text" THEN Thrown("Error")
         ELSE IF body.kind = "null" THEN Thrown("TypeError")
         ELSE ApiErrorWith(status, body.error_code, body.error_reason)
    ELSE IF status = 204 THEN Parsed(Undefined)
    ELSE IF body.kind = "text" THEN Thrown("SyntaxError")
    ELSE Parsed(body)

NoResponse == Thrown("none")

HttpInit ==
    /\ rtype = "topics"
    /\ ops = [o \in Slots |-> Idle]
    /\ nops = 0
    /\ rng = 0
    /\ encLog = <<>>
    /\ keyFetches = [d \in DiaryIds |-> 0]
    /\ keyNeeds = [d \in DiaryIds |-> 0]
    /\ srvDiaries = <<>>
    /\ srvRecs = <<>>
    /\ srvSeq = 0
    /\ lab \in [pc : {"start"}, kind : {"keys.list", "keys.getActive"},
                 status : Statuses, body : ErrorBodies,
                 response : {NoResponse}, result : {NoResponse}]

\* await this.http.request(...) on the response the lab was given
LabRequest ==
    /\ lab.pc = "start"
    /\ lab' = [lab EXCEPT !.pc = "handled",
                          !.response = HttpResponse(lab.status, lab.body)]
    /\ UNCHANGED_crypto /\ UNCHANGED_session

\* the request was rejected: the resource method that awaited it is left
LabSurface ==
    /\ lab.pc = "handled"
    /\ ~lab.response.ok
    /\ lab' = [lab EXCEPT !.pc = "surfaced",
                          !.result = Returned([kind |-> lab.kind], lab.response)]
    /\ UNCHANGED_crypto /\ UNCHANGED_session

HttpNext == LabRequest \/ LabSurface

HttpSpec == HttpInit /\ [][HttpNext]_vars

-----------------------------------------------------------------------------
(* The server's side of key rotation *)

\* the server gains a key for the diary, sealed for the account
ServerAddKey(d, status) ==
    /\ Live(srvDiaries, d)
    /\ Len(srvDiaries[d].keys) < MaxKeys
    /\ LET k == [id |-> KeyIdOf[srvSeq + 1], value |-> ServerSealed(srvSeq + 1),
                 status |-> status]
       IN  srvDiaries' = [srvDiaries EXCEPT ![d].keys = Append(@, k)]
    /\ srvSeq' = srvSeq + 1
    /\ UNCHANGED <<rtype, ops, nops, rng, encLog, keyFetches, keyNeeds, srvRecs, lab>>

\* the server changes the status of a key
ServerSetStatus(d, i, status) ==
    /\ Live(srvDiaries, d)
    /\ i \in 1..Len(srvDiaries[d].keys)
    /\ srvDiaries[d].keys[i].status # status
    /\ srvDiaries' = [srvDiaries EXCEPT ![d].keys[i].status = status]
    /\ UNCHANGED <<rtype, ops, nops, rng, encLog, keyFetches, keyNeeds, srvRecs,
                   srvSeq, lab>>

-----------------------------------------------------------------------------

Next ==
    \E o \in Sequential :
        \/ \E l \in Logins, p \in Passwords : Register(o, l, p)
        \/ \E l \in Logins, p \in Passwords : Login(o, l, p)
        \/ \E p \in NewDiaryParams : DiariesCreate(o, p)
        \/ \E d \in DiaryIds, p \in DiaryParams : DiariesPut(o, d, p)
        \/ DiariesWriteResponse(o)
        \/ \E d \in DiaryIds : DiariesGet(o, d)
        \/ DiariesList(o)
        \/ \E d \in DiaryIds : DiariesDelete(o, d)
        \/ \E d \in DiaryIds : KeysListCall(o, d)
        \/ \E d \in DiaryIds : KeysGetActiveCall(o, d)
        \/ \E d \in DiaryIds, id \in RecIds, p \in TopicParams : TopicsPut(o, d, id, p)
        \/ \E d \in DiaryIds, id \in RecIds : TopicsGet(o, d, id)
        \/ \E d \in DiaryIds : TopicsList(o, d)
        \/ \E d \in DiaryIds, id \in RecIds, e \in BOOLEAN : TopicsDelete(o, d, id, e)
        \/ \E d \in DiaryIds, id \in RecIds, p \in EntryParams : EntriesPut(o, d, id, p)
        \/ \E d \in DiaryIds, id \in RecIds : EntriesGet(o, d, id)
        \/ \E d \in DiaryIds : EntriesList(o, d)
        \/ \E d \in DiaryIds, id \in RecIds : EntriesDelete(o, d, id)
        \/ \E d \in DiaryIds, id \in RecIds, p \in TemplateParams : TemplatesPut(o, d, id, p)
        \/ \E d \in DiaryIds, id \in RecIds : TemplatesGet(o, d, id)
        \/ \E d \in DiaryIds : TemplatesList(o, d)
        \/ \E d \in DiaryIds, id \in RecIds : TemplatesDelete(o, d, id)
        \/ RecResponse(o)
        \/ \E d \in DiaryIds, st \in {"active", "rotating"} : ServerAddKey(d, st)
        \/ \E d \in DiaryIds, i \in 1..MaxKeys, st \in {"active", "rotating"} :
                ServerSetStatus(d, i, st)

Spec == Init /\ [][Next]_vars

-----------------------------------------------------------------------------
(* Two callers on one Client: a call is made while another is in flight *)

ConcNext ==
    \E o \in Slots :
        \/ \E p \in NewDiaryParams : DiariesCreate(o, p)
        \/ \E d \in DiaryIds, p \in DiaryParams : DiariesPut(o, d, p)
        \/ DiariesWriteResponse(o)
        \/ \E d \in DiaryIds, id \in RecIds, p \in TopicParams : TopicsPut(o, d, id, p)
        \/ \E d \in DiaryIds, id \in RecIds, p \in EntryParams : EntriesPut(o, d, id, p)
        \/ \E d \in DiaryIds, id \in RecIds, p \in TemplateParams : TemplatesPut(o, d, id, p)
        \/ \E d \in DiaryIds, id \in RecIds : TopicsGet(o, d, id)
        \/ \E d \in DiaryIds, id \in RecIds : EntriesGet(o, d, id)
        \/ \E d \in DiaryIds, id \in RecIds : TemplatesGet(o, d, id)
        \/ RecResponse(o)

ConcSpec == Init /\ [][ConcNext]_vars

-----------------------------------------------------------------------------
(* A diary whose key list holds a key the account cannot unseal *)

\* what the server holds as the value of such a key: a key sealed for the
\* public key of another account, or a value cut short
BadSealed(n) ==
    << SealWith(ServerKey(n), LabKeyPair(1).publicKey,
                [secretKey |-> <<"rand", "server-eph", n, 32>>,
                 publicKey |-> x25519PublicKey(<<"rand", "server-eph", n, 32>>)]),
       Raw(16) >>

\* the server gains a key for the diary that the account cannot unseal
ServerAddBadKey(d, status, which) ==
    /\ Live(srvDiaries, d)
    /\ Len(srvDiaries[d].keys) < MaxKeys
    /\ LET k == [id |-> KeyIdOf[srvSeq + 1], value |-> BadSealed(srvSeq + 1)[which],
                 status |-> status]
       IN  srvDiaries' = [srvDiaries EXCEPT ![d].keys = Append(@, k)]
    /\ srvSeq' = srvSeq + 1
    /\ UNCHANGED <<rtype, ops, nops, rng, encLog, keyFetches, keyNeeds, srvRecs, lab>>

KeysNext ==
    \E o \in Sequential :
        \/ \E p \in NewDiaryParams : DiariesCreate(o, p)
        \/ \E d \in DiaryIds, p \in DiaryParams : DiariesPut(o, d, p)
        \/ DiariesWriteResponse(o)
        \/ \E d \in DiaryIds : KeysListCall(o, d)
        \/ \E d \in DiaryIds : KeysGetActiveCall(o, d)
        \/ \E d \in DiaryIds, id \in RecIds, p \in TopicParams : TopicsPut(o, d, id, p)
        \/ \E d \in DiaryIds, id \in RecIds : TopicsGet(o, d, id)
        \/ \E d \in DiaryIds : TopicsList(o, d)
        \/ \E d \in DiaryIds, id \in RecIds, p \in EntryParams : EntriesPut(o, d, id, p)
        \/ \E d \in DiaryIds, id \in RecIds : EntriesGet(o, d, id)
        \/ \E d \in DiaryIds : EntriesList(o, d)
        \/ \E d \in DiaryIds, id \in RecIds, p \in TemplateParams : TemplatesPut(o, d, id, p)
        \/ \E d \in DiaryIds, id \in RecIds : TemplatesGet(o, d, id)
        \/ \E d \in DiaryIds : TemplatesList(o, d)
        \/ RecResponse(o)
        \/ \E d \in DiaryIds, st \in {"active", "rotating"} : ServerAddKey(d, st)
        \/ \E d \in DiaryIds, st \in {"active", "rotating"}, w \in 1..2 :
                ServerAddBadKey(d, st, w)
        \/ \E d \in DiaryIds, i \in 1..MaxKeys, st \in {"active", "rotating"} :
                ServerSetStatus(d, i, st)

KeysSpec == Init /\ [][KeysNext]_vars

-----------------------------------------------------------------------------
(* Properties *)

Called == {o \in Slots : ops[o].pc \in {"sent", "done"}}
Done == {o \in Slots : ops[o].pc = "done"}

WriteKinds == {"diaries.create", "diaries.put", "put"}
KeyedKinds == {"diaries.put", "put", "get", "list", "keys.list", "keys.getActive"}
TextFields == {"title", "description", "color", "content"}
FieldUses == {"details", "preview"}

\* the key inside a sealed key of a response, as the holder of the account's
\* private key obtains it
Unsealed(value) == value[2][3][4]

\* the diary key a diary of a response is opened with
FirstKey(apiDiary) == Unsealed(apiDiary.encryption_keys[1].value)

SameFields(rec, params) ==
    \A f \in (DOMAIN rec \cap DOMAIN params) \cap TextFields : rec[f] = params[f]

Rejected(result, err) ==
    ~result.ok /\ result.err = err /\ result.value = Undefined

\* what unwrapping one record of a response with unwrapKey has to give
RoundTripOf(api, unwrapKey, result) ==
    IF unwrapKey = api.written.wrapKey
    THEN /\ result.ok
         /\ result.value.id = api.id
         /\ SameFields(result.value, api.written.params)
    ELSE Rejected(result, "DecryptionError")

\* the response of the resource request of a keyed call, once it is there
Answered(op, n) == Len(op.resps) = n /\ Len(op.reqs) = n /\ op.resps[n].ok

\* C1: a record wrapped under diary key D (fresh entity key over the JSON of
\* the fields, D over the entity key) and unwrapped with D gives back exactly
\* the fields written; unwrapped with another diary key it is rejected with
\* a decryption error.  For diaries, topics, entries and templates alike:
\* every create, put, get and list that returns, returns what was written.
RecordRoundTrip ==
    \A o \in Done :
        /\ (ops[o].kind \in {"put", "get"} /\ Answered(ops[o], 2)) =>
                RoundTripOf(ops[o].resps[2].value.item, ops[o].key.value,
                            ops[o].result)
        /\ (ops[o].kind = "list" /\ Answered(ops[o], 2)) =>
                IF \A i \in 1..Len(ops[o].resps[2].value.items) :
                        ops[o].resps[2].value.items[i].written.wrapKey
                            = ops[o].key.value
                THEN /\ ops[o].result.ok
                     /\ Len(ops[o].result.value) = Len(ops[o].resps[2].value.items)
                     /\ \A i \in 1..Len(ops[o].result.value) :
                            RoundTripOf(ops[o].resps[2].value.items[i],
                                        ops[o].key.value,
                                        Ok(ops[o].result.value[i]))
                ELSE Rejected(ops[o].result, "DecryptionError")
        /\ (ops[o].kind \in {"diaries.create", "diaries.get"} /\ Answered(ops[o], 1)) =>
                RoundTripOf(ops[o].resps[1].value.diary,
                            FirstKey(ops[o].resps[1].value.diary), ops[o].result)
        /\ (ops[o].kind = "diaries.list" /\ Answered(ops[o], 1)) =>
                IF \A i \in 1..Len(ops[o].resps[1].value.diaries) :
                        ops[o].resps[1].value.diaries[i].written.wrapKey
                            = FirstKey(ops[o].resps[1].value.diaries[i])
                THEN /\ ops[o].result.ok
                     /\ Len(ops[o].result.value) = Len(ops[o].resps[1].value.diaries)
                     /\ \A i \in 1..Len(ops[o].result.value) :
                            RoundTripOf(ops[o].resps[1].value.diaries[i],
                                        FirstKey(ops[o].resps[1].value.diaries[i]),
                                        Ok(ops[o].result.value[i]))
                ELSE Rejected(ops[o].result, "DecryptionError")
        /\ (ops[o].kind = "diaries.put" /\ Answered(ops[o], 2)) =>
                RoundTripOf(ops[o].resps[2].value.diary,
                            FirstKey(ops[o].resps[2].value.diary), ops[o].result)

\* C1 witness: a topic written with title "b" and read back by get
RecordRoundTripWitness ==
    \E o \in Done :
        /\ rtype = "topics"
        /\ ops[o].kind = "get"
        /\ ops[o].result.ok
        /\ ops[o].result.value.title = Str("b")
        /\ ops[o].result.value.color = Str("red")

\* C2: decryptWithSymmetricKey, given the nonce and the ciphertext that
\* encryptWithSymmetricKey(m, k) returned and the key k, returns exactly m.
SymmetricRoundTrip ==
    (lab.pc = "decrypted" /\ lab.k2 = lab.k) =>
        /\ lab.out.ok
        /\ lab.out.value = lab.m

\* C2 witness: "Hello, World!" encrypted and decrypted under one key
SymmetricRoundTripWitness ==
    /\ lab.pc = "decrypted"
    /\ lab.k2 = lab.k
    /\ lab.m = TextEncode(Str("Hello, World!"))
    /\ lab.out.ok

\* C3: decrypting the output of encrypt(m, k1) with a key k2 # k1 raises a
\* decryption error and returns no plaintext.
WrongKeyFailsClosed ==
    (lab.pc = "decrypted" /\ lab.k2 # lab.k) =>
        Rejected(lab.out, "DecryptionError")

\* C3 witness: a decryption with another key than the encryption's has failed
WrongKeyFailsClosedWitness ==
    /\ lab.pc = "decrypted"
    /\ lab.k2 # lab.k
    /\ ~lab.out.ok

\* C4: no two symmetric encryptions of a session made under the same key use
\* the same nonce; two encryptions of the same data under the same key differ
\* in nonce and in ciphertext.
NonceDiscipline ==
    \A i, j \in DOMAIN encLog :
        (i < j /\ encLog[i].key = encLog[j].key) =>
            /\ encLog[i].nonce # encLog[j].nonce
            /\ encLog[i].ciphertext # encLog[j].ciphertext

\* C4 witness: the same data has been encrypted twice under the same key
NonceDisciplineWitness ==
    \E i, j \in DOMAIN encLog :
        /\ i < j
        /\ encLog[i].key = encLog[j].key
        /\ encLog[i].data = encLog[j].data

\* C5: every write (diaries.create, diaries.put, and put of a topic, entry or
\* template) generates an entity key never seen before in the session, and no
\* entity key encrypts the fields of more than one write: a second put of the
\* same record id uses another entity key than the first.
EntityKeyFreshness ==
    /\ \A i, j \in DOMAIN encLog :
            (/\ encLog[i].use \in FieldUses
             /\ encLog[j].use \in FieldUses
             /\ encLog[i].key = encLog[j].key) => encLog[i].n = encLog[j].n
    /\ \A o \in Called :
            (ops[o].kind \in WriteKinds /\ ops[o].entityKey # Undefined) =>
                /\ \E i \in DOMAIN encLog :
                        /\ encLog[i].n = ops[o].n
                        /\ encLog[i].use = "details"
                        /\ encLog[i].key = ops[o].entityKey
                /\ \A j \in DOMAIN encLog :
                        encLog[j].n < ops[o].n =>
                            /\ encLog[j].key # ops[o].entityKey
                            /\ encLog[j].data # ops[o].entityKey

\* C5 witness: the same record id has been put twice
EntityKeyFreshnessWitness ==
    \E i, j \in DOMAIN encLog :
        /\ encLog[i].n < encLog[j].n
        /\ encLog[i].kind = "put" /\ encLog[j].kind = "put"
        /\ encLog[i].use = "details" /\ encLog[j].use = "details"
        /\ encLog[i].d = encLog[j].d
        /\ encLog[i].id = encLog[j].id

\* C6: in every POST or PUT of a write, the X-Signature header is the base64
\* of the signature, under the signing private key, of exactly the bytes of
\* the body the transport transmits.
SignedBytesAreSentBytes ==
    \A o \in Called :
        \A i \in 1..Len(ops[o].reqs) :
            (ops[o].kind \in WriteKinds /\ ops[o].reqs[i].method \in {"POST", "PUT"}) =>
                /\ ops[o].reqs[i].body # Undefined
                /\ ops[o].reqs[i].headers.XSignature =
                        bytesToBase64(signBytes(TextEncode(ops[o].reqs[i].body),
                                                credentials.signingPrivateKey))

\* C6 witness: a signed PUT of a record has been sent and accepted
SignedBytesAreSentBytesWitness ==
    \E o \in Done :
        /\ ops[o].kind = "put"
        /\ Answered(ops[o], 2)
        /\ ops[o].reqs[2].method = "PUT"
        /\ ops[o].reqs[2].headers.XSignature # Undefined

\* what a reader of a request sees of a value: the value, the members of an
\* object, the text of a JSON body, the bytes of a base64 string or of an
\* array of numbers; nothing of what is inside a ciphertext, a sealed box, a
\* signature or a public key
RECURSIVE InClear(_, _)
InClear(t, s) ==
    \/ t = s
    \/ CASE t[1] = "obj" -> \E i \in 1..Len(t[2]) : InClear(t[2][i][2], s)
         [] t[1] \in {"json", "b64", "arr", "utf8", "bearer"} -> InClear(t[2], s)
         [] OTHER -> FALSE

Exposed(req, s) ==
    \/ \E i \in 1..Len(req.path) : Str(req.path[i]) = s
    \/ InClear(req.headers.ContentType, s)
    \/ InClear(req.headers.UserAgent, s)
    \/ InClear(req.headers.Authorization, s)
    \/ InClear(req.headers.XSignature, s)
    \/ InClear(req.body, s)

Keeps(req, s) == s = Undefined \/ ~Exposed(req, s)

\* every byte string a reader of the value sees is a public key, a signature,
\* a sealed box, an AEAD ciphertext or the 12-byte nonce of one
RECURSIVE OnlyPublicBytes(_)
OnlyPublicBytes(t) ==
    CASE t[1] = "obj" -> \A i \in 1..Len(t[2]) : OnlyPublicBytes(t[2][i][2])
      [] t[1] = "json" -> OnlyPublicBytes(t[2])
      [] t[1] \in {"b64", "arr"} ->
            \/ t[2][1] \in {"xpub", "edpub", "sig", "sealed", "gcm"}
            \/ t[2][1] = "rand" /\ t[2][4] = 12
      [] OTHER -> TRUE

\* C7: no request the client sends (register, login, login/verify, key
\* fetch, any read, write or delete) shows the encryption private key or the
\* signing private key in its path, headers or body; the byte strings that
\* leave the client are public keys, signatures, sealed boxes and AEAD
\* ciphertexts with their nonces; no diary key, entity key or plaintext of
\* the record fields is readable in a request.
PrivateKeysStayOnClient ==
    \A o \in Slots :
        \A i \in 1..Len(ops[o].reqs) :
            /\ Keeps(ops[o].reqs[i], credentials.encryptionPrivateKey)
            /\ Keeps(ops[o].reqs[i], credentials.signingPrivateKey)
            /\ Keeps(ops[o].reqs[i], ops[o].key.value)
            /\ Keeps(ops[o].reqs[i], ops[o].entityKey)
            /\ \A j \in DOMAIN encLog :
                    /\ Keeps(ops[o].reqs[i], encLog[j].key)
                    /\ Keeps(ops[o].reqs[i], encLog[j].data)
            /\ ops[o].kind \in WriteKinds =>
                    \A f \in DOMAIN ops[o].params \cap TextFields :
                        Keeps(ops[o].reqs[i], ops[o].params[f])
            /\ OnlyPublicBytes(ops[o].reqs[i].headers.XSignature)
            /\ OnlyPublicBytes(ops[o].reqs[i].body)

\* C7 witness: a diary has been created, its diary key sent sealed and its
\* entity key and details sent encrypted
PrivateKeysStayOnClientWitness ==
    \E o \in Done :
        /\ ops[o].kind = "diaries.create"
        /\ ops[o].result.ok
        /\ ops[o].entityKey # Undefined
        /\ ops[o].reqs[1].body # Undefined

\* C8: getActive returns a key of status "active" that is the first active
\* element, in the server's order, of what list returns for the same
\* response, with that element's id and decrypted value; when no key is
\* active it fails with the no-active-key error and returns no key.  The key
\* a put, get or list works with is the one getActive returned.
GetActiveReturnsFirstActive ==
    \A o \in Called :
        (ops[o].kind \in KeyedKinds \ {"keys.list"} /\ ops[o].resps[1].ok) =>
            LET keys == ops[o].resps[1].value.keys
                act == {i \in 1..Len(keys) : keys[i].status = "active"}
                got == IF ops[o].kind = "keys.getActive"
                       THEN ops[o].result
                       ELSE IF ops[o].key = NoKey THEN ops[o].result
                            ELSE Ok(ops[o].key)
            IN  IF act = {}
                THEN /\ ops[o].pc = "done"
                     /\ Rejected(ops[o].result, "NoActiveKeyError")
                     /\ ops[o].key = NoKey
                     /\ Len(ops[o].reqs) = 1
                ELSE /\ got.ok
                     /\ got.value.status = "active"
                     /\ \E i \in act :
                            /\ \A j \in act : i <= j
                            /\ got.value.id = keys[i].id
                            /\ got.value.value = Unsealed(keys[i].value)
                            /\ KeysList(ops[o].resps[1]).ok
                            /\ KeysList(ops[o].resps[1]).value[i] = got.value

\* C8 witness: getActive has returned the second key of a list whose first
\* key is not active
GetActiveReturnsFirstActiveWitness ==
    \E o \in Done :
        /\ ops[o].kind = "keys.getActive"
        /\ ops[o].result.ok
        /\ Len(ops[o].resps[1].value.keys) = 2
        /\ ops[o].resps[1].value.keys[1].status = "rotating"
        /\ ops[o].result.value.id = ops[o].resps[1].value.keys[2].id

\* C9 as stated: over the operations of a session on one diary, the sealed
\* diary key is fetched and unsealed at most once.
DiaryKeyFetchedOnce ==
    \A d \in DiaryIds : keyFetches[d] <= 1

\* C9 as the code has it: nothing is kept between operations.  Every
\* operation that needs the key of a diary (diaries.put, put, get and list of
\* a topic, entry or template, keys.list, keys.getActive) starts with its own
\* GET of the diary's keys, so the keys of a diary have been fetched exactly
\* as many times as operations needed them.
DiaryKeyFetchedPerOperation ==
    /\ \A d \in DiaryIds : keyFetches[d] = keyNeeds[d]
    /\ \A o \in Called :
            ops[o].kind \in KeyedKinds =>
                /\ Len(ops[o].reqs) >= 1
                /\ ops[o].reqs[1] = KeysRequest(ops[o].d)

\* C9 witness: two operations have needed the key of the same diary
DiaryKeyFetchedPerOperationWitness ==
    \E d \in DiaryIds : keyNeeds[d] >= 2 /\ keyFetches[d] >= 2

\* the read was given up at the failure: no record, no further request
Aborted(op, n) ==
    /\ Rejected(op.result, "DecryptionError")
    /\ Len(op.reqs) = n
    /\ Len(op.resps) = n

\* C10: when unwrapping the entity key or decrypting the details of any one
\* record of the response fails during get or list (of diaries, topics,
\* entries or templates), the operation rejects with the decryption error,
\* returns no record at all, and sends no further request.
DecryptionFailureAborts ==
    \A o \in Done :
        /\ (/\ ops[o].kind = "get" /\ Answered(ops[o], 2)
            /\ ops[o].resps[2].value.item.written.wrapKey # ops[o].key.value) =>
                Aborted(ops[o], 2)
        /\ (/\ ops[o].kind = "list" /\ Answered(ops[o], 2)
            /\ \E i \in 1..Len(ops[o].resps[2].value.items) :
                    ops[o].resps[2].value.items[i].written.wrapKey
                        # ops[o].key.value) =>
                Aborted(ops[o], 2)
        /\ (/\ ops[o].kind = "diaries.get" /\ Answered(ops[o], 1)
            /\ ops[o].resps[1].value.diary.written.wrapKey
                    # FirstKey(ops[o].resps[1].value.diary)) =>
                Aborted(ops[o], 1)
        /\ (/\ ops[o].kind = "diaries.list" /\ Answered(ops[o], 1)
            /\ \E i \in 1..Len(ops[o].resps[1].value.diaries) :
                    ops[o].resps[1].value.diaries[i].written.wrapKey
                        # FirstKey(ops[o].resps[1].value.diaries[i])) =>
                Aborted(ops[o], 1)

\* C10 witness: a list whose response holds a record that opens and a record
\* that does not has been rejected
DecryptionFailureAbortsWitness ==
    \E o \in Done :
        /\ ops[o].kind = "list"
        /\ Answered(ops[o], 2)
        /\ \E i, j \in 1..Len(ops[o].resps[2].value.items) :
                /\ ops[o].resps[2].value.items[i].written.wrapKey = ops[o].key.value
                /\ ops[o].resps[2].value.items[j].written.wrapKey # ops[o].key.value
        /\ ~ops[o].result.ok

\* the server holds what write number n sent
Holds(n) ==
    \/ \E d \in DOMAIN srvDiaries : srvDiaries[d].written.n = n
    \/ \E k \in DOMAIN srvRecs : srvRecs[k].written.n = n

\* C11: whenever diaries.create, diaries.put or the put of a topic, entry or
\* template rejects with a decryption error, the server stores what it stored
\* before the call: it has not accepted the write the caller saw fail.
FailedWriteLeavesServerUnchanged ==
    \A o \in Done :
        (ops[o].kind \in WriteKinds /\ Rejected(ops[o].result, "DecryptionError")) =>
            ~Holds(ops[o].n)

\* C12: a box sealed for the public key of a key pair and unsealed with the
\* private and public key of that pair gives back exactly the data; sealing
\* the same data for the same public key twice gives two different boxes,
\* and both unseal to the data.
SealedBoxRoundTrip ==
    /\ lab.pc \in {"twice", "unsealed"} => lab.s1 # lab.s2
    /\ (lab.pc = "unsealed" /\ lab.kp2 = lab.kp) =>
            /\ lab.out1.ok /\ lab.out1.value = lab.data
            /\ lab.out2.ok /\ lab.out2.value = lab.data

\* C12 witness: "Same plaintext" sealed twice and unsealed by the recipient
SealedBoxRoundTripWitness ==
    /\ lab.pc = "unsealed"
    /\ lab.kp2 = lab.kp
    /\ lab.data = TextEncode(Str("Same plaintext"))
    /\ lab.out1.ok
    /\ lab.out2.ok

\* C13: unsealing a box sealed for the public key of one key pair with the
\* private and public key of another key pair raises the decryption-failed
\* error and returns no data.
UnrelatedKeyPairFails ==
    (lab.pc = "unsealed" /\ lab.kp2 # lab.kp) =>
        /\ Rejected(lab.out1, "DecryptionFailedError")
        /\ Rejected(lab.out2, "DecryptionFailedError")

\* C13 witness: a sealed 32-byte key met another key pair's private key
UnrelatedKeyPairFailsWitness ==
    /\ lab.pc = "unsealed"
    /\ lab.kp2 # lab.kp
    /\ lab.data = <<"rand", "lab", 0, 32>>
    /\ ~lab.out1.ok

\* C14: decryptWithPrivateKey raises the invalid-sealed-box error for every
\* input shorter than 32 bytes; an input of 32 bytes or more never raises it:
\* it unseals, or raises the decryption-failed error, as does an input of
\* exactly 32 bytes, whose ciphertext is empty.
MalformedSealedBox ==
    /\ lab.pc = "raw" =>
            IF ByteLen(lab.input) < 32
            THEN Rejected(lab.out1, "InvalidSealedBoxError")
            ELSE Rejected(lab.out1, "DecryptionFailedError")
    /\ lab.pc = "unsealed" =>
            /\ lab.out1.ok \/ Rejected(lab.out1, "DecryptionFailedError")
            /\ lab.out2.ok \/ Rejected(lab.out2, "DecryptionFailedError")

\* C14 witness: an input of 31 bytes or one of exactly 32 bytes has been
\* refused, with the error of its length
MalformedSealedBoxWitness ==
    /\ lab.pc = "raw"
    /\ \/ lab.input = Raw(31) /\ lab.out1.err = "InvalidSealedBoxError"
       \/ lab.input = Raw(32) /\ lab.out1.err = "DecryptionFailedError"

\* C15: verifySignature of a message, of its signature by signBytes under a
\* private key, and of the public key of that private key is true; with one
\* bit of the message or of the signature flipped, or with the public key of
\* another private key, it is false.
SignatureCorrectness ==
    lab.pc = "verified" => (lab.verdict = (lab.tamper = "none"))

\* C15 witness: a signature with one bit flipped has been refused
SignatureCorrectnessWitness ==
    /\ lab.pc = "verified"
    /\ lab.tamper = "signature"
    /\ lab.bit = MaxBit
    /\ lab.verdict = FALSE

\* C16: two signBytes of the same message with the same key return the same
\* signature of 64 bytes, whatever the length of the message, the empty one
\* included; another message or another key gives another signature.
SigningDeterministic ==
    lab.pc = "twice" =>
        /\ ByteLen(lab.sig1) = 64
        /\ ByteLen(lab.sig2) = 64
        /\ (lab.sig2 = lab.sig1) <=> (lab.m2 = lab.m /\ lab.sk2 = lab.sk)

\* C16 witness: the empty message has been signed twice with one key
SigningDeterministicWitness ==
    /\ lab.pc = "twice"
    /\ lab.m = TextEncode(Str(""))
    /\ lab.m2 = lab.m
    /\ lab.sk2 = lab.sk
    /\ lab.sig2 = lab.sig1

\* C17: two deriveCredentials of the same seed phrase return the same four
\* keys; two of different seed phrases return different public keys; within
\* one bundle the signing private key and the encryption private key are
\* both the one derived seed of 32 bytes, of which the public keys are made.
CredentialsDeterministic ==
    /\ lab.pc \in {"first", "both"} =>
            /\ lab.creds1.signingPrivateKey = lab.creds1.encryptionPrivateKey
            /\ ByteLen(lab.creds1.signingPrivateKey) = 32
            /\ lab.creds1.signingPublicKey
                    = ed25519PublicKey(lab.creds1.signingPrivateKey)
            /\ lab.creds1.encryptionPublicKey
                    = x25519PublicKey(lab.creds1.encryptionPrivateKey)
    /\ lab.pc = "both" =>
            IF lab.seed1 = lab.seed2
            THEN lab.creds1 = lab.creds2
            ELSE /\ lab.creds1.encryptionPublicKey # lab.creds2.encryptionPublicKey
                 /\ lab.creds1.signingPublicKey # lab.creds2.signingPublicKey

\* C17 witness: "seed1" and "seed2" have both been derived from
CredentialsDeterministicWitness ==
    /\ lab.pc = "both"
    /\ lab.seed1 = "seed1"
    /\ lab.seed2 = "seed2"
    /\ lab.creds1 # lab.creds2

(* C18: every response that is not 2xx makes the call reject with an ApiError
   that carries the status code, the error code and the error reason of the
   response, and the resource method passes that error on unchanged. *)
NonOkRejectsWithApiError ==
    (lab.pc \in {"handled", "surfaced"} /\ ~ResOk(lab.status)) =>
        /\ lab.response.err = "ApiError"
        /\ lab.response.status = lab.status
        /\ lab.response.errorCode = lab.body.error_code
        /\ lab.response.errorReason = lab.body.error_reason
        /\ lab.pc = "surfaced" => lab.result = lab.response

\* a response of 404 with a JSON error body has come up as an ApiError of 404
NonOkRejectsWithApiErrorWitness ==
    /\ lab.pc = "surfaced"
    /\ lab.status = 404
    /\ lab.body.kind = "object"
    /\ lab.result.err = "ApiError"
    /\ lab.result.status = 404

\* the nonce and ciphertext fields of a request body, and the signature header
ByteFields(req) ==
    LET body == JSONparse(req.body)
    IN  << Get(Get(body, "details"), "nonce"),
           Get(Get(body, "details"), "data"),
           Get(Get(body, "preview"), "nonce"),
           Get(Get(body, "preview"), "data"),
           Get(Get(body, "encryption"), "encrypted_key_nonce"),
           Get(Get(body, "encryption"), "encrypted_key_data"),
           Get(body, "encrypted_diary_key"),
           req.headers.XSignature >>

AllBase64(fields) ==
    \A j \in 1..Len(fields) : fields[j][1] \in {"b64", "undefined"}

(* C19: in every request with a body that a diary, topic, entry or template
   operation sends, each nonce, each ciphertext (details, preview, wrapped
   entity key, sealed diary key) and the X-Signature header is a base64
   string. *)
Base64OnTheWire ==
    \A o \in Called :
        ops[o].kind \in WriteKinds =>
            \A i \in 1..Len(ops[o].reqs) :
                ops[o].reqs[i].body # Undefined => AllBase64(ByteFields(ops[o].reqs[i]))

\* a write of a record has sent its body with a wrapped entity key, and a
\* create has sent its sealed diary key, all of them as base64 strings
Base64OnTheWireWitness ==
    \E o \in Called :
        /\ ops[o].kind \in {"diaries.create", "put"}
        /\ \E i \in 1..Len(ops[o].reqs) :
              /\ ops[o].reqs[i].body # Undefined
              /\ ByteFields(ops[o].reqs[i])[5][1] = "b64"
              /\ ByteFields(ops[o].reqs[i])[8][1] = "b64"
              /\ AllBase64(ByteFields(ops[o].reqs[i]))

\* the sealed diary key of the request of a diaries.create, as bytes
SealedKeyOf(req) == base64ToBytes(Get(JSONparse(req.body), "encrypted_diary_key"))

\* the sealed diary key of a request as the account opens it
OpenedKeyOf(req) ==
    decryptWithPrivateKey(SealedKeyOf(req), credentials.encryptionPrivateKey,
                          credentials.encryptionPublicKey)

\* the wrapped entity key of a request unwrapped with key
UnwrappedWith(req, key) ==
    decryptWithSymmetricKey(
        base64ToBytes(Get(Get(JSONparse(req.body), "encryption"), "encrypted_key_nonce")),
        base64ToBytes(Get(Get(JSONparse(req.body), "encryption"), "encrypted_key_data")),
        key)

(* C20: the request of every diaries.create carries a diary key of 32 bytes
   that is used for nothing but wrapping, and carries it only inside a sealed box
   for the account's encryptionPublicKey: the account's encryption private
   key opens the box, and the key it gives is the one that unwraps the
   entity key of the request; no other private key opens the box; and the
   diary the server answers with decrypts to the fields given. *)
DiaryKeyDelivery ==
    \A o \in Called :
        ops[o].kind = "diaries.create" =>
            /\ OpenedKeyOf(ops[o].reqs[1]).ok
            /\ ByteLen(OpenedKeyOf(ops[o].reqs[1]).value) = 32
            /\ OpenedKeyOf(ops[o].reqs[1]).value # ops[o].entityKey
            /\ \A j \in 1..Len(encLog) :
                   /\ encLog[j].data # OpenedKeyOf(ops[o].reqs[1]).value
                   /\ encLog[j].key = OpenedKeyOf(ops[o].reqs[1]).value =>
                          encLog[j].use = "key"
            /\ UnwrappedWith(ops[o].reqs[1], OpenedKeyOf(ops[o].reqs[1]).value)
                   = Ok(ops[o].entityKey)
            /\ ByteLen(ops[o].entityKey) = 32
            /\ ~Exposed(ops[o].reqs[1], OpenedKeyOf(ops[o].reqs[1]).value)
            /\ \A i \in 1..NumLabKeys :
                   /\ ~decryptWithPrivateKey(SealedKeyOf(ops[o].reqs[1]),
                                             LabKeyPair(i).secretKey,
                                             LabKeyPair(i).publicKey).ok
                   /\ ~decryptWithPrivateKey(SealedKeyOf(ops[o].reqs[1]),
                                             LabKeyPair(i).secretKey,
                                             credentials.encryptionPublicKey).ok
            /\ (ops[o].pc = "done" /\ ops[o].resps[1].ok) =>
                   /\ ops[o].result.ok
                   /\ SameFields(ops[o].result.value, ops[o].params)
                   /\ FirstKey(ops[o].resps[1].value.diary) =
                          OpenedKeyOf(ops[o].reqs[1]).value

\* a create has returned the diary it made, opened with the key of its box
DiaryKeyDeliveryWitness ==
    \E o \in Done :
        /\ ops[o].kind = "diaries.create"
        /\ ops[o].result.ok
        /\ OpenedKeyOf(ops[o].reqs[1]).ok
        /\ FirstKey(ops[o].resps[1].value.diary) = OpenedKeyOf(ops[o].reqs[1]).value
        /\ UnwrappedWith(ops[o].reqs[1], FirstKey(ops[o].resps[1].value.diary)).ok

\* the last request of a call, which for a write is its POST or PUT
LastRequest(o) == ops[o].reqs[Len(ops[o].reqs)]

\* the writes that have built and sent their request
Writes == {o \in Called : ops[o].kind \in WriteKinds /\ ops[o].entityKey # Undefined}

(* C21: whatever the interleaving of the calls made through one Client, no
   nonce and no entity key is used by two calls, and what a call has sent is
   made of its own key, its own entity key and its own encryptions: the
   wrapped key of its request unwraps under the diary key the call holds to
   the entity key the call drew, the details of its request are the
   ciphertext the call made under that entity key, and its request carries
   the Client's token and a signature that verifies under the Client's
   signing public key. *)
ConcurrentUseIsSafe ==
    /\ \A i, j \in DOMAIN encLog :
           encLog[i].n # encLog[j].n =>
               /\ encLog[i].nonce # encLog[j].nonce
               /\ (encLog[i].use \in FieldUses /\ encLog[j].use \in FieldUses) =>
                      encLog[i].key # encLog[j].key
    /\ \A o, p \in Writes : o # p => ops[o].entityKey # ops[p].entityKey
    /\ \A o \in Writes :
           /\ UnwrappedWith(LastRequest(o), ops[o].key.value) = Ok(ops[o].entityKey)
           /\ \E i \in DOMAIN encLog :
                  /\ encLog[i].n = ops[o].n
                  /\ encLog[i].use = "details"
                  /\ encLog[i].key = ops[o].entityKey
                  /\ encLog[i].ciphertext =
                         base64ToBytes(Get(Get(JSONparse(LastRequest(o).body),
                                               "details"), "data"))
           /\ Signed(LastRequest(o))
           /\ LastRequest(o).headers.Authorization = <<"bearer", authToken>>

\* two writes to the same diary are in flight at the same time
ConcurrentUseIsSafeWitness ==
    /\ ops[1].pc = "sent" /\ ops[2].pc = "sent"
    /\ ops[1].kind \in WriteKinds /\ ops[2].kind \in WriteKinds
    /\ ops[1].d = ops[2].d
    /\ ops[1].entityKey # Undefined /\ ops[2].entityKey # Undefined

\* the position of a random byte string among the draws of the session
DrawOf(bytes) == bytes[3]

\* the encryptions a call has made for the given use
EncryptionsOf(o, uses) ==
    {i \in DOMAIN encLog : encLog[i].n = ops[o].n /\ encLog[i].use \in uses}

\* the POST and PUT requests of a call
WriteRequests(o) ==
    {i \in 1..Len(ops[o].reqs) : ops[o].reqs[i].method \in {"POST", "PUT"}}

(* C22: every write that has sent its request has, in this order, obtained
   the diary key (a put from the keys response that precedes its PUT, a
   create by drawing it), drawn the entity key, encrypted the fields under
   the entity key, wrapped the entity key under the diary key, signed the
   serialized request that holds these ciphertexts, and sent it; it has sent
   exactly one POST or PUT, and a write that has not come to build its
   request has sent none. *)
WriteOrdering ==
    \A o \in Called :
        ops[o].kind \in WriteKinds =>
            IF o \notin Writes
            THEN WriteRequests(o) = {}
            ELSE /\ Cardinality(WriteRequests(o)) = 1
                 /\ WriteRequests(o) = {Len(ops[o].reqs)}
                 /\ IF ops[o].kind = "diaries.create"
                    THEN /\ Len(ops[o].reqs) = 1
                         /\ DrawOf(ops[o].key.value) < DrawOf(ops[o].entityKey)
                    ELSE /\ Len(ops[o].reqs) = 2
                         /\ ops[o].reqs[1] = KeysRequest(ops[o].d)
                         /\ ops[o].resps[1].ok
                         /\ KeysGetActive(ops[o].resps[1]) = Ok(ops[o].key)
                 /\ Cardinality(EncryptionsOf(o, {"key"})) = 1
                 /\ Cardinality(EncryptionsOf(o, {"details"})) = 1
                 /\ \A k \in EncryptionsOf(o, {"key"}) :
                        /\ encLog[k].key = ops[o].key.value
                        /\ encLog[k].data = ops[o].entityKey
                        /\ encLog[k].ciphertext =
                               base64ToBytes(Get(Get(JSONparse(LastRequest(o).body),
                                                     "encryption"), "encrypted_key_data"))
                        /\ \A f \in EncryptionsOf(o, FieldUses) :
                               /\ encLog[f].key = ops[o].entityKey
                               /\ DrawOf(ops[o].entityKey) < DrawOf(encLog[f].nonce)
                               /\ DrawOf(encLog[f].nonce) < DrawOf(encLog[k].nonce)
                               /\ f < k
                               /\ encLog[f].ciphertext =
                                      base64ToBytes(Get(Get(JSONparse(LastRequest(o).body),
                                                            encLog[f].use), "data"))
                 /\ Signed(LastRequest(o))

\* a put has fetched the keys, built, signed and sent its PUT, and returned
WriteOrderingWitness ==
    \E o \in Done :
        /\ ops[o].kind = "put"
        /\ o \in Writes
        /\ ops[o].result.ok
        /\ Len(ops[o].reqs) = 2
        /\ Cardinality(EncryptionsOf(o, FieldUses)) >= 1

\* the nonce and the ciphertext of a field of a request body, as bytes
FieldNonce(req, use) == base64ToBytes(Get(Get(JSONparse(req.body), use), "nonce"))
FieldData(req, use) == base64ToBytes(Get(Get(JSONparse(req.body), use), "data"))

\* a field of a request body decrypted with key
FieldUnder(req, use, key) ==
    decryptWithSymmetricKey(FieldNonce(req, use), FieldData(req, use), key)

\* the puts of entries that have sent their request
EntryPuts == {o \in Writes : ops[o].kind = "put" /\ rtype = "entries"}

(* C23: the request of every entries.put holds a preview whose nonce is not
   the nonce of the details and whose ciphertext is not the ciphertext of
   the details; preview and details were each encrypted by a call of their
   own under the entity key of the put, and both decrypt under the entity
   key that the wrapped key of the same request unwraps to. *)
EntryPreview ==
    \A o \in EntryPuts :
        /\ FieldNonce(LastRequest(o), "preview") # FieldNonce(LastRequest(o), "details")
        /\ FieldData(LastRequest(o), "preview") # FieldData(LastRequest(o), "details")
        /\ ByteLen(FieldNonce(LastRequest(o), "preview")) = 12
        /\ Cardinality(EncryptionsOf(o, {"preview"})) = 1
        /\ \A i \in EncryptionsOf(o, {"preview"}) :
               /\ encLog[i].key = ops[o].entityKey
               /\ encLog[i].nonce = FieldNonce(LastRequest(o), "preview")
               /\ encLog[i].ciphertext = FieldData(LastRequest(o), "preview")
        /\ UnwrappedWith(LastRequest(o), ops[o].key.value) = Ok(ops[o].entityKey)
        /\ FieldUnder(LastRequest(o), "preview", ops[o].entityKey).ok
        /\ FieldUnder(LastRequest(o), "details", ops[o].entityKey).ok
        /\ ~FieldUnder(LastRequest(o), "preview", ops[o].key.value).ok

\* an entries.put has sent a request with a preview and has returned
EntryPreviewWitness ==
    \E o \in EntryPuts :
        /\ ops[o].pc = "done"
        /\ ops[o].result.ok
        /\ Get(JSONparse(LastRequest(o).body), "preview") # Undefined
        /\ FieldUnder(LastRequest(o), "preview", ops[o].entityKey).ok

\* the puts that have sent their request: diaries.put and the puts of records
Puts == {o \in Writes : ops[o].kind \in {"diaries.put", "put"}}

\* encryption.diary_key_id of a request
KeyIdIn(req) == Get(Get(JSONparse(req.body), "encryption"), "diary_key_id")

(* C24: in the request of every diaries.put and of every put of a topic,
   entry or template, whatever the server did to the diary's keys before and
   after the key fetch, encryption.diary_key_id is the id of the key of the
   put's keys response whose bytes unwrap the entity key of the request: the
   key of that id unwraps it, no key of another id does, and id and bytes
   are those of the key getActive returned to the put. *)
KeyIdConsistency ==
    \A o \in Puts :
        /\ KeyIdIn(LastRequest(o)) = Str(ops[o].key.id)
        /\ UnwrappedWith(LastRequest(o), ops[o].key.value) = Ok(ops[o].entityKey)
        /\ KeysGetActive(ops[o].resps[1]) = Ok(ops[o].key)
        /\ \E i \in 1..Len(ops[o].resps[1].value.keys) :
               Str(ops[o].resps[1].value.keys[i].id) = KeyIdIn(LastRequest(o))
        /\ \A i \in 1..Len(ops[o].resps[1].value.keys) :
               (Str(ops[o].resps[1].value.keys[i].id) = KeyIdIn(LastRequest(o)))
                   <=> UnwrappedWith(LastRequest(o),
                                     Unsealed(ops[o].resps[1].value.keys[i].value)).ok

\* a put has wrapped under the second key of a diary whose first key is no
\* longer active, and its request names that second key
KeyIdConsistencyWitness ==
    \E o \in Puts :
        /\ Len(ops[o].resps[1].value.keys) = 2
        /\ ops[o].resps[1].value.keys[1].status = "rotating"
        /\ KeyIdIn(LastRequest(o)) = Str(ops[o].resps[1].value.keys[2].id)

\* the record of a response was written under the key the read holds
UnderReadKey(o, api) ==
    /\ api.written.wrapKey = ops[o].key.value
    /\ api.encryption.diary_key_id = Str(ops[o].key.id)

\* the key a record names is among the keys the read was given
NamedKeyListed(o, api) ==
    \E i \in 1..Len(ops[o].resps[1].value.keys) :
        /\ Str(ops[o].resps[1].value.keys[i].id) = api.encryption.diary_key_id
        /\ Unsealed(ops[o].resps[1].value.keys[i].value) = api.written.wrapKey

(* C25: a get of a topic, entry or template whose record the server has
   returned gives the record as written if and only if the record was wrapped
   under the key that is the diary's active key at the time of the read, the
   key its encryption.diary_key_id names then being that same key; if the
   active key is another one, the get rejects with the decryption error, even
   when the key the record names is in the key list the read was given.  A
   list returns the records if all of them were wrapped under the active key,
   and otherwise rejects with the decryption error and returns no record. *)
ReadAfterRotation ==
    \A o \in Done :
        /\ (ops[o].kind = "get" /\ Answered(ops[o], 2)) =>
               /\ ops[o].result.ok <=> UnderReadKey(o, ops[o].resps[2].value.item)
               /\ ops[o].result.ok =>
                      SameFields(ops[o].result.value,
                                 ops[o].resps[2].value.item.written.params)
               /\ ~ops[o].result.ok => Rejected(ops[o].result, "DecryptionError")
               /\ ops[o].resps[2].value.item.written.wrapKey = ops[o].key.value
                      <=> ops[o].resps[2].value.item.encryption.diary_key_id
                              = Str(ops[o].key.id)
        /\ (ops[o].kind = "list" /\ Answered(ops[o], 2)) =>
               /\ ops[o].result.ok <=>
                      \A i \in 1..Len(ops[o].resps[2].value.items) :
                          UnderReadKey(o, ops[o].resps[2].value.items[i])
               /\ ops[o].result.ok =>
                      Len(ops[o].result.value) = Len(ops[o].resps[2].value.items)
               /\ ~ops[o].result.ok => Rejected(ops[o].result, "DecryptionError")

\* a record written under the first key is read after the second key has
\* become the active one: the get is rejected, though the first key is still
\* in the list the get was given
ReadAfterRotationWitness ==
    \E o \in Done :
        /\ ops[o].kind = "get"
        /\ Answered(ops[o], 2)
        /\ Rejected(ops[o].result, "DecryptionError")
        /\ NamedKeyListed(o, ops[o].resps[2].value.item)
        /\ ops[o].resps[2].value.item.encryption.diary_key_id # Str(ops[o].key.id)

(* C26: create, put, get and list of diaries open a diary of a response with
   the key unsealed from the first element of its encryption_keys, whatever
   the status or the id of that key: the diary is returned as written exactly
   when that key is the key the diary was wrapped under, and otherwise the
   call rejects with the decryption error.  diaries.put wraps under the key
   getActive returned, so its response decrypts if and only if the first
   element of encryption_keys unseals to that key. *)
DiaryKeyByPosition ==
    \A o \in Done :
        /\ (\/ /\ ops[o].kind \in {"diaries.create", "diaries.get"}
               /\ Answered(ops[o], 1)
            \/ /\ ops[o].kind = "diaries.put"
               /\ Answered(ops[o], 2)) =>
               /\ ops[o].result.ok <=>
                      ops[o].resps[Len(ops[o].reqs)].value.diary.written.wrapKey
                          = FirstKey(ops[o].resps[Len(ops[o].reqs)].value.diary)
               /\ ops[o].result.ok =>
                      SameFields(ops[o].result.value,
                                 ops[o].resps[Len(ops[o].reqs)].value.diary.written.params)
               /\ ~ops[o].result.ok => Rejected(ops[o].result, "DecryptionError")
        /\ (ops[o].kind = "diaries.list" /\ Answered(ops[o], 1)) =>
               /\ ops[o].result.ok <=>
                      \A i \in 1..Len(ops[o].resps[1].value.diaries) :
                          ops[o].resps[1].value.diaries[i].written.wrapKey
                              = FirstKey(ops[o].resps[1].value.diaries[i])
               /\ ~ops[o].result.ok => Rejected(ops[o].result, "DecryptionError")
        /\ (ops[o].kind = "diaries.put" /\ Answered(ops[o], 2)) =>
               /\ ops[o].resps[2].value.diary.written.wrapKey = ops[o].key.value
               /\ ops[o].key.status = "active"
               /\ ops[o].result.ok <=>
                      FirstKey(ops[o].resps[2].value.diary) = ops[o].key.value

\* a diaries.put that wrapped under the active second key has been rejected,
\* the first key of the response being another one
DiaryKeyByPositionWitness ==
    \E o \in Done :
        /\ ops[o].kind = "diaries.put"
        /\ Answered(ops[o], 2)
        /\ Len(ops[o].resps[2].value.diary.encryption_keys) = 2
        /\ Rejected(ops[o].result, "DecryptionError")
        /\ ops[o].key.id = ops[o].resps[2].value.diary.encryption_keys[2].id

\* the keys of the keys response of a call that the account cannot unseal
Unsealable(o) ==
    {i \in 1..Len(ops[o].resps[1].value.keys) :
        ~decryptKey(ops[o].resps[1].value.keys[i]).ok}

\* the keys of the keys response of a call that are active and unseal
ActiveUnsealed(o) ==
    {i \in 1..Len(ops[o].resps[1].value.keys) :
        /\ decryptKey(ops[o].resps[1].value.keys[i]).ok
        /\ ops[o].resps[1].value.keys[i].status = "active"}

(* C27: when any key of the keys response, active or rotating, does not
   unseal, keys.list rejects with the error of that key and returns no key;
   keys.getActive, diaries.put and put, get and list of topics, entries and
   templates reject with the same error, return nothing and send no request
   after the key fetch, also when another key of the response is active and
   unseals. *)
KeyListingAllOrNothing ==
    \A o \in Done :
        (/\ ops[o].kind \in KeyedKinds
         /\ ops[o].resps[1].ok
         /\ Unsealable(o) # {}) =>
            /\ ~ops[o].result.ok
            /\ ops[o].result.value = Undefined
            /\ ops[o].result.err \in {"DecryptionFailedError", "InvalidSealedBoxError"}
            /\ \E i \in Unsealable(o) :
                   /\ \A j \in Unsealable(o) : i <= j
                   /\ ops[o].result.err = decryptKey(ops[o].resps[1].value.keys[i]).err
            /\ Len(ops[o].reqs) = 1
            /\ ops[o].key = NoKey
            /\ ops[o].entityKey = Undefined

\* a put on a diary whose first key is active and unseals has been rejected
\* because the second key, a rotating one, does not unseal
KeyListingAllOrNothingWitness ==
    \E o \in Done :
        /\ ops[o].kind = "put"
        /\ ops[o].resps[1].ok
        /\ ActiveUnsealed(o) = {1}
        /\ Unsealable(o) = {2}
        /\ ops[o].resps[1].value.keys[2].status = "rotating"
        /\ ~ops[o].result.ok

\* the requests of a call that fetch the keys of its diary
KeyFetchesOf(o) ==
    {i \in 1..Len(ops[o].reqs) : ops[o].reqs[i] = KeysRequest(ops[o].d)}

\* what is common to the statement of C28 and to its amendment: a put whose
\* getActive failed is rejected with that error and has sent the key fetch
\* only; a put whose getActive returned a key has sent one key fetch and then
\* one PUT, and nothing else
OneFetchOnePut(o) ==
    /\ Len(ops[o].reqs) >= 1
    /\ ops[o].reqs[1] = KeysRequest(ops[o].d)
    /\ Cardinality(KeyFetchesOf(o)) = 1
    /\ IF KeysGetActive(ops[o].resps[1]).ok
       THEN /\ Len(ops[o].reqs) = 2
            /\ WriteRequests(o) = {2}
            /\ ops[o].reqs[2].method = "PUT"
            /\ Ok(ops[o].key) = KeysGetActive(ops[o].resps[1])
       ELSE /\ ops[o].pc = "done"
            /\ Len(ops[o].reqs) = 1
            /\ WriteRequests(o) = {}
            /\ ops[o].result = KeysGetActive(ops[o].resps[1])
            /\ ops[o].result.err \in {"ApiError", "NoActiveKeyError",
                                      "DecryptionFailedError", "InvalidSealedBoxError"}

\* the response of the PUT opened with the key fetched before the write, the
\* key the put wrapped under: it opens, and gives the fields written
OpenedWithFetchedKey(o) ==
    /\ ops[o].result.ok
    /\ SameFields(ops[o].result.value, ops[o].params)

(* C28 as stated: a diaries.put or a put of a topic, entry or template whose
   getActive failed is rejected with that error and sends no PUT; otherwise
   it makes one key fetch and then one PUT, and decrypts the response of the
   PUT with the key fetched before the write. *)
NoWriteWithoutKey ==
    \A o \in Called :
        ops[o].kind \in {"diaries.put", "put"} =>
            /\ OneFetchOnePut(o)
            /\ (ops[o].pc = "done" /\ Answered(ops[o], 2)) => OpenedWithFetchedKey(o)

(* C28 as the code has it: the same for the keys and the requests; the puts
   of topics, entries and templates decrypt the response with the key fetched
   before the write, while diaries.put decrypts it with the key unsealed from
   the first element of the response's encryption_keys, which needs no
   further request, and is rejected with the decryption error when that key
   is not the key fetched before the write. *)
NoWriteWithoutKeyAmended ==
    \A o \in Called :
        ops[o].kind \in {"diaries.put", "put"} =>
            /\ OneFetchOnePut(o)
            /\ (ops[o].pc = "done" /\ Answered(ops[o], 2)) =>
                   IF ops[o].kind = "put"
                   THEN OpenedWithFetchedKey(o)
                   ELSE IF FirstKey(ops[o].resps[2].value.diary) = ops[o].key.value
                        THEN OpenedWithFetchedKey(o)
                        ELSE Rejected(ops[o].result, "DecryptionError")

\* a put has been rejected by getActive for a key of the diary that does not
\* unseal, and has sent nothing but its key fetch
NoWriteWithoutKeyWitness ==
    \E o \in Done :
        /\ ops[o].kind \in {"diaries.put", "put"}
        /\ ops[o].resps[1].ok
        /\ ~KeysGetActive(ops[o].resps[1]).ok
        /\ ops[o].result.err = "DecryptionFailedError"
        /\ Len(ops[o].reqs) = 1

\* the calls made through the Client
ResourceKinds ==
    {"diaries.create", "diaries.put", "diaries.get", "diaries.list",
     "diaries.delete", "keys.list", "keys.getActive", "put", "get", "list",
     "delete"}

(* C29: of the requests the resource APIs send, every POST and PUT (of
   diaries.create, diaries.put and the puts of topics, entries and templates)
   has a body and an X-Signature header that verifies over it, and every GET
   and every DELETE (of a diary, of a topic with or without
   delete_entries=true, of an entry, of a template) has no body and no
   X-Signature header and carries the bearer token. *)
OnlyWritesSigned ==
    \A o \in Called :
        ops[o].kind \in ResourceKinds =>
            \A i \in 1..Len(ops[o].reqs) :
                /\ ops[o].reqs[i].method \in {"POST", "PUT", "GET", "DELETE"}
                /\ ops[o].reqs[i].headers.Authorization = <<"bearer", authToken>>
                /\ ops[o].reqs[i].method \in {"POST", "PUT"} =>
                       /\ ops[o].kind \in WriteKinds
                       /\ ops[o].reqs[i].body # Undefined
                       /\ ops[o].reqs[i].headers.XSignature # Undefined
                       /\ Signed(ops[o].reqs[i])
                /\ ops[o].reqs[i].method \in {"GET", "DELETE"} =>
                       /\ ops[o].reqs[i].body = Undefined
                       /\ ops[o].reqs[i].headers.XSignature = Undefined
                /\ ops[o].kind \in {"diaries.delete", "delete"} =>
                       ops[o].reqs[i].method = "DELETE"

\* a topic has been deleted with delete_entries=true by a request without
\* body and signature
OnlyWritesSignedWitness ==
    \E o \in Done :
        /\ ops[o].kind = "delete"
        /\ rtype = "topics"
        /\ ops[o].result.ok
        /\ ops[o].reqs[1].path # StripQuery(ops[o].reqs[1].path)
        /\ ops[o].reqs[1].headers.XSignature = Undefined

\* the path of a request begins with the version prefix
UnderV1(req) == req.path # StripV1(req.path)

(* C30: all the requests of a call made through the Client have paths with
   the same version prefix: the key fetch of a put, get or list of a topic,
   entry or template, or of a diaries.put, and the resource request of the
   same call are either both under /v1 or both not. *)
UniformApiRoot ==
    \A o \in Called :
        ops[o].kind \in ResourceKinds =>
            \A i, j \in 1..Len(ops[o].reqs) :
                UnderV1(ops[o].reqs[i]) <=> UnderV1(ops[o].reqs[j])

\* a put of a template has sent its key fetch and its PUT, neither under /v1
UniformApiRootWitness ==
    \E o \in Called :
        /\ ops[o].kind = "put"
        /\ rtype = "templates"
        /\ Len(ops[o].reqs) = 2
        /\ ~UnderV1(ops[o].reqs[1])
        /\ ~UnderV1(ops[o].reqs[2])

=============================================================================
